---- MODULE Spec2Model ----
(***************************************************************************)
(* A model of the DAIDS audit pipeline (kenny-io/DAIDS): URL safety and    *)
(* normalisation (url-utils.ts), the page fetch with manual redirects, the *)
(* sitemap seeding and the two crawlSite implementations the repository    *)
(* holds (crawler.ts), the errored-page record and the extractor's record. *)
(*                                                                         *)
(* Strings the code inspects are modelled by their structure: a URL is a   *)
(* record of protocol, host, path segments, query keys and fragment; a     *)
(* host is a DNS name (a sequence of labels) or an IP literal; an IP       *)
(* address is its family and the groups the code's regular expressions     *)
(* look at.                                                                *)
(***************************************************************************)
EXTENDS Integers, Sequences, FiniteSets, TLC

(***************************************************************************)
(* IP addresses and hosts                                                  *)
(***************************************************************************)

\* The IPv4 address a.b.0.d
V4(a, b, d) == [fam |-> 4, a |-> a, b |-> b, d |-> d]

\* The IPv6 address h::l (first group h, last group l, the groups between 0)
V6(h, l) == [fam |-> 6, a |-> h, b |-> 0, d |-> l]

\* First groups of IPv6 addresses, as numbers
Hfe80 == 65152
Hfc00 == 64512
Hfd00 == 64768

\* A DNS name is a sequence of labels: docs.example.com = <<"docs","example","com">>
NameHost(labels) == [kind |-> "name", labels |-> labels, ip |-> V4(0, 0, 0)]

\* An IP literal in the authority of a URL (an IPv6 one is written in brackets)
IpHost(ip) == [kind |-> "ip", labels |-> <<>>, ip |-> ip]

\* PRIVATE_IP_RANGES.some(regex => regex.test(ip)): each regular expression
\* inspects the leading group(s) of the address text
isPrivateIP(ip) ==
    \/ ip.fam = 4 /\ ip.a = 127                          \* /^127\./
    \/ ip.fam = 4 /\ ip.a = 10                           \* /^10\./
    \/ ip.fam = 4 /\ ip.a = 172 /\ ip.b \in 16..31       \* /^172\.(1[6-9]|2[0-9]|3[01])\./
    \/ ip.fam = 4 /\ ip.a = 192 /\ ip.b = 168            \* /^192\.168\./
    \/ ip.fam = 4 /\ ip.a = 169 /\ ip.b = 254            \* /^169\.254\./
    \/ ip.fam = 4 /\ ip.a = 0                            \* /^0\./
    \/ ip.fam = 6 /\ ip.a = 0 /\ ip.d = 1                \* /^::1$/
    \/ ip.fam = 6 /\ ip.a = Hfe80                        \* /^fe80:/i
    \/ ip.fam = 6 /\ ip.a = Hfc00                        \* /^fc00:/i
    \/ ip.fam = 6 /\ ip.a = Hfd00                        \* /^fd00:/i

\* BLOCKED_HOSTS.includes(lower) || lower.endsWith(".local").  The hostname of
\* a URL with an IPv6 literal keeps its brackets, so the entry "::1" matches
\* no hostname and "[::1]" matches the literal ::1.
isBlockedHost(host) ==
    \/ host.kind = "name" /\ host.labels = <<"localhost">>
    \/ host.kind = "ip" /\ host.ip = V4(127, 0, 1)
    \/ host.kind = "ip" /\ host.ip = V4(0, 0, 0)
    \/ host.kind = "ip" /\ host.ip = V6(0, 1)
    \/ /\ host.kind = "name"
       /\ Len(host.labels) >= 2
       /\ host.labels[Len(host.labels)] = "local"

\* net.isIP(parsed.hostname): 4 for a dotted IPv4 literal, 0 for a name and 0
\* for a bracketed IPv6 literal ("[fe80::1]" is no IP address text)
netIsIP(host) ==
    IF host.kind = "ip" /\ host.ip.fam = 4 THEN 4 ELSE 0

\* dns.lookup(hostname, {all: true}): the addresses of a name, [] on error; the
\* lookup of a bracketed literal fails
resolveHostToIP(host, dns) ==
    IF host.kind = "name" /\ host.labels \in DOMAIN dns THEN dns[host.labels] ELSE {}

(***************************************************************************)
(* URLs                                                                    *)
(***************************************************************************)

\* pathname = "/" + segs[1] + "/" + ... + segs[n]: "/" is <<"">>, "/a/b" is
\* <<"a","b">>, "/a/b/" is <<"a","b","">>, "/a//" is <<"a","","">>
Url(proto, host, segs, query, hash) ==
    [proto |-> proto, host |-> host, segs |-> segs, query |-> query, hash |-> hash]

\* A path-absolute reference ("/a/b"), parsable only against a base
RelRef(segs, query, hash) ==
    Url("rel", NameHost(<<>>), segs, query, hash)

\* A string new URL() rejects with or without a base
BadUrl == Url("bad", NameHost(<<>>), <<"">>, <<>>, FALSE)

\* The null normalizeUrl returns
Null == [null |-> TRUE]

\* new URL(urlString) succeeds
IsAbsolute(u) == u.proto \notin {"rel", "bad"}

\* new URL(urlString, baseUrl)
ParseWithBase(u, base) ==
    IF u.proto = "bad" \/ ~IsAbsolute(base) THEN Null
    ELSE IF u.proto = "rel" THEN Url(base.proto, base.host, u.segs, u.query, u.hash)
    ELSE u

SafeResult == [safe |-> TRUE, reason |-> "none"]

Unsafe(reason) == [safe |-> FALSE, reason |-> reason]

\* isSSRFSafe(urlString), given what DNS answers
isSSRFSafe(urlString, dns) ==
    IF ~IsAbsolute(urlString) THEN Unsafe("Invalid URL")
    ELSE IF urlString.proto \notin {"http:", "https:"} THEN Unsafe("Blocked protocol")
    ELSE IF isBlockedHost(urlString.host) THEN Unsafe("Blocked host")
    ELSE IF netIsIP(urlString.host) # 0
         THEN IF isPrivateIP(urlString.host.ip)
              THEN Unsafe("Private IP blocked") ELSE SafeResult
    ELSE IF \E ip \in resolveHostToIP(urlString.host, dns) : isPrivateIP(ip)
         THEN Unsafe("Hostname resolves to private IP")
    ELSE SafeResult

\* paramsToRemove
TrackingParams ==
    {"utm_source", "utm_medium", "utm_campaign", "utm_term", "utm_content", "ref", "source"}

RECURSIVE DeleteParams(_)
DeleteParams(q) ==
    IF q = <<>> THEN <<>>
    ELSE IF Head(q) \in TrackingParams THEN DeleteParams(Tail(q))
    ELSE <<Head(q)>> \o DeleteParams(Tail(q))

\* if (pathname.length > 1 && pathname.endsWith("/")) pathname = pathname.slice(0, -1)
StripTrailingSlash(segs) ==
    IF segs # <<"">> /\ segs[Len(segs)] = ""
    THEN SubSeq(segs, 1, Len(segs) - 1)
    ELSE segs

\* normalizeUrl(urlString) without a base; a relative or malformed string is null
normalizeUrl(urlString) ==
    IF ~IsAbsolute(urlString) THEN Null
    ELSE Url(urlString.proto, urlString.host, StripTrailingSlash(urlString.segs),
             DeleteParams(urlString.query), FALSE)

\* normalizeUrl(urlString, baseUrl)
normalizeUrlWithBase(urlString, baseUrl) ==
    IF ParseWithBase(urlString, baseUrl) = Null THEN Null
    ELSE normalizeUrl(ParseWithBase(urlString, baseUrl))

\* parsed1.origin === parsed2.origin
isSameOrigin(url1, url2) ==
    /\ url1 # Null /\ url2 # Null
    /\ IsAbsolute(url1) /\ IsAbsolute(url2)
    /\ url1.proto = url2.proto
    /\ url1.host = url2.host

\* path.replace(/\/$/, "").split("/").filter(Boolean).length
SegmentCount(segs) == Cardinality({i \in 1..Len(segs) : segs[i] # ""})

Max(a, b) == IF a >= b THEN a ELSE b

Min(a, b) == IF a <= b THEN a ELSE b

\* getPathDepth(url, rootUrl)
getPathDepth(url, rootUrl) ==
    IF ~IsAbsolute(url) \/ ~IsAbsolute(rootUrl) THEN 0
    ELSE Max(0, SegmentCount(url.segs) - SegmentCount(rootUrl.segs))

\* getSitemapUrls(rootUrl): /sitemap.xml, /sitemap_index.xml, /sitemap/sitemap.xml
getSitemapUrls(rootUrl) ==
    IF ~IsAbsolute(rootUrl) THEN <<>>
    ELSE << Url(rootUrl.proto, rootUrl.host, <<"sitemap.xml">>, <<>>, FALSE),
            Url(rootUrl.proto, rootUrl.host, <<"sitemap_index.xml">>, <<>>, FALSE),
            Url(rootUrl.proto, rootUrl.host, <<"sitemap", "sitemap.xml">>, <<>>, FALSE) >>

(***************************************************************************)
(* a.url.localeCompare(b.url) on the URLs of one origin: the paths are     *)
(* compared segment by segment, a proper prefix first                      *)
(***************************************************************************)

SegRank(s) ==
    CASE s = "" -> 0
      [] s = "a" -> 1
      [] s = "b" -> 2
      [] s = "c" -> 3
      [] s = "l" -> 4
      [] s = "n" -> 5
      [] s = "p" -> 6
      [] s = "q" -> 7
      [] s = "r" -> 8
      [] s = "t" -> 9
      [] OTHER -> 10

RECURSIVE SegsLess(_, _)
SegsLess(s, t) ==
    IF s = <<>> THEN t # <<>>
    ELSE IF t = <<>> THEN FALSE
    ELSE IF SegRank(Head(s)) # SegRank(Head(t)) THEN SegRank(Head(s)) < SegRank(Head(t))
    ELSE SegsLess(Tail(s), Tail(t))

\* a.url.localeCompare(b.url) < 0
UrlLess(u, v) ==
    IF u.segs # v.segs THEN SegsLess(u.segs, v.segs)
    ELSE Len(u.query) < Len(v.query)

\* Array.prototype.sort with (a, b) => a.url.localeCompare(b.url): stable
RECURSIVE InsertByUrl(_, _)
InsertByUrl(x, s) ==
    IF s = <<>> THEN <<x>>
    ELSE IF UrlLess(x.url, Head(s).url) THEN <<x>> \o s
    ELSE <<Head(s)>> \o InsertByUrl(x, Tail(s))

RECURSIVE SortByUrl(_)
SortByUrl(s) ==
    IF s = <<>> THEN <<>>
    ELSE InsertByUrl(s[Len(s)], SortByUrl(SubSeq(s, 1, Len(s) - 1)))

(***************************************************************************)
(* The audited site: what the network answers.  A site is fixed for a run. *)
(***************************************************************************)

DocsHost == NameHost(<<"docs", "example", "com">>)

\* https://docs.example.com/<segs>
Pg(segs) == Url("https:", DocsHost, segs, <<>>, FALSE)

RootPage == Pg(<<"">>)

\* http://10.0.0.5/<segs>
PrivateUrl(segs) == Url("http:", IpHost(V4(10, 0, 5)), segs, <<>>, FALSE)

ExternalUrl == Url("https:", NameHost(<<"other", "example", "org">>), <<"">>, <<>>, FALSE)

PublicIp == V4(93, 184, 34)

PrivateIp == V4(10, 0, 7)

\* What the resolver answers at the start of an audit
InitialDns ==
    (<<"docs", "example", "com">> :> {PublicIp}) @@ (<<"other", "example", "org">> :> {PublicIp})

\* An HTML document, by the parts the extractor reads
Doc(hrefs) ==
    [ title |-> "Title", hrefs |-> hrefs, headings |-> <<"Intro">>, codeBlocks |-> <<"npm i">>,
      mainContent |-> "text", html |-> "<html>", jsonLdTypes |-> <<"TechArticle">>,
      faqItems |-> <<>>, openAPIUrl |-> "null", hasPrerequisites |-> TRUE,
      externalLinkCount |-> Cardinality({i \in 1..Len(hrefs) :
                                           IsAbsolute(hrefs[i]) /\ hrefs[i].host # DocsHost}),
      scriptCount |-> 1, htmlSize |-> 6, textLength |-> 4, aiContent |-> FALSE ]

EmptyDoc ==
    [ title |-> "null", hrefs |-> <<>>, headings |-> <<>>, codeBlocks |-> <<>>,
      mainContent |-> "", html |-> "<html>", jsonLdTypes |-> <<>>,
      faqItems |-> <<>>, openAPIUrl |-> "null", hasPrerequisites |-> FALSE,
      externalLinkCount |-> 0, scriptCount |-> 0, htmlSize |-> 6, textLength |-> 0,
      aiContent |-> FALSE ]

Html(status, doc) ==
    [kind |-> "html", status |-> status, location |-> Null, doc |-> doc, locs |-> <<>>]

\* A 3xx response; location = Null when the header is missing
Redirect(location) ==
    [kind |-> "redirect", status |-> 302, location |-> location, doc |-> EmptyDoc, locs |-> <<>>]

NonHtml == [kind |-> "nonhtml", status |-> 200, location |-> Null, doc |-> EmptyDoc, locs |-> <<>>]

NetError == [kind |-> "neterror", status |-> 0, location |-> Null, doc |-> EmptyDoc, locs |-> <<>>]

Timeout == [kind |-> "timeout", status |-> 0, location |-> Null, doc |-> EmptyDoc, locs |-> <<>>]

\* An XML sitemap whose <loc> entries are locs
SitemapXml(locs) ==
    [kind |-> "sitemap", status |-> 200, location |-> Null, doc |-> EmptyDoc, locs |-> locs]

NotFound == Html(404, EmptyDoc)

\* Links written in several ways that normalize to /a and /b, and an external one
PlainSite ==
    (RootPage :> Html(200, Doc(<< RelRef(<<"b">>, <<>>, TRUE),
                                   RelRef(<<"a", "">>, <<>>, FALSE),
                                   RelRef(<<"a">>, <<"utm_source">>, FALSE),
                                   ExternalUrl >>)))
    @@ (Pg(<<"a">>) :> Html(200, Doc(<< RelRef(<<"a", "c">>, <<>>, FALSE),
                                         RelRef(<<"">>, <<>>, FALSE) >>)))
    @@ (Pg(<<"b">>) :> Html(200, Doc(<< Pg(<<"a">>), RelRef(<<"c">>, <<>>, FALSE), BadUrl >>)))
    @@ (Pg(<<"a", "c">>) :> Html(200, Doc(<<>>)))

\* Pages that fail each in its own way
FailingSite ==
    (RootPage :> Html(200, Doc(<< RelRef(<<"t">>, <<>>, FALSE),
                                   RelRef(<<"n">>, <<>>, FALSE),
                                   RelRef(<<"a">>, <<>>, FALSE) >>)))
    @@ (Pg(<<"t">>) :> Timeout)
    @@ (Pg(<<"n">>) :> NonHtml)
    @@ (Pg(<<"a">>) :> Html(200, Doc(<< RelRef(<<"r">>, <<>>, FALSE) >>)))
    @@ (Pg(<<"r">>) :> Redirect(Null))

\* Redirects: to itself for ever, by way of /q to a private address, to a page
RedirectSite ==
    (RootPage :> Html(200, Doc(<< RelRef(<<"l">>, <<>>, FALSE),
                                   RelRef(<<"p">>, <<>>, FALSE),
                                   RelRef(<<"r">>, <<>>, FALSE) >>)))
    @@ (Pg(<<"l">>) :> Redirect(RelRef(<<"l">>, <<>>, FALSE)))
    @@ (Pg(<<"p">>) :> Redirect(RelRef(<<"q">>, <<>>, FALSE)))
    @@ (Pg(<<"q">>) :> Redirect(PrivateUrl(<<"internal">>)))
    @@ (Pg(<<"r">>) :> Redirect(RelRef(<<"b">>, <<>>, FALSE)))
    @@ (Pg(<<"b">>) :> Html(200, Doc(<< RelRef(<<"n">>, <<>>, FALSE) >>)))
    @@ (Pg(<<"n">>) :> NetError)

\* The root itself redirects to a private address
RootRedirectSite ==
    (RootPage :> Redirect(PrivateUrl(<<"internal">>)))

\* /sitemap.xml is missing; /sitemap_index.xml names a page, a nested sitemap of
\* the site, a sitemap on a private address and a page of another origin
SitemapSite ==
    (RootPage :> Html(200, Doc(<< RelRef(<<"a">>, <<>>, FALSE) >>)))
    @@ (Pg(<<"sitemap_index.xml">>) :>
            SitemapXml(<< Pg(<<"b", "">>), Pg(<<"pages.xml">>),
                          PrivateUrl(<<"internal.xml">>), ExternalUrl >>))
    @@ (Pg(<<"pages.xml">>) :> SitemapXml(<< Pg(<<"a", "c">>), Pg(<<"b">>), BadUrl >>))
    @@ (Pg(<<"a">>) :> Html(200, Doc(<<>>)))
    @@ (Pg(<<"b">>) :> Html(200, Doc(<< RelRef(<<"a">>, <<>>, FALSE) >>)))
    @@ (Pg(<<"a", "c">>) :> NetError)
    @@ (Pg(<<"robots.txt">>) :> Redirect(PrivateUrl(<<"robots.txt">>)))

\* The root answers after MAX_REDIRECTS redirects: / -> /a -> /b -> /c -> /l -> /n
ChainSite ==
    (RootPage :> Redirect(RelRef(<<"a">>, <<>>, FALSE)))
    @@ (Pg(<<"a">>) :> Redirect(RelRef(<<"b">>, <<>>, FALSE)))
    @@ (Pg(<<"b">>) :> Redirect(RelRef(<<"c">>, <<>>, FALSE)))
    @@ (Pg(<<"c">>) :> Redirect(RelRef(<<"l">>, <<>>, FALSE)))
    @@ (Pg(<<"l">>) :> Redirect(RelRef(<<"n">>, <<>>, FALSE)))
    @@ (Pg(<<"n">>) :> Html(200, Doc(<<>>)))

\* /sitemap.xml names a page and, as a nested sitemap, itself
CycleSite ==
    (RootPage :> Html(200, Doc(<<>>)))
    @@ (Pg(<<"sitemap.xml">>) :> SitemapXml(<< Pg(<<"a">>), Pg(<<"sitemap.xml">>) >>))
    @@ (Pg(<<"a">>) :> Html(200, Doc(<<>>)))

\* /sitemap.xml names a page and then the root itself
HomeListedSite ==
    (RootPage :> Html(200, Doc(<<>>)))
    @@ (Pg(<<"sitemap.xml">>) :> SitemapXml(<< Pg(<<"a">>), RootPage >>))
    @@ (Pg(<<"a">>) :> Html(200, Doc(<<>>)))

SiteNames == {"plain", "failing", "redirect", "rootRedirect", "sitemap", "chain", "cycle",
              "homeListed"}

SiteTable(name) ==
    CASE name = "plain" -> PlainSite
      [] name = "failing" -> FailingSite
      [] name = "redirect" -> RedirectSite
      [] name = "rootRedirect" -> RootRedirectSite
      [] name = "sitemap" -> SitemapSite
      [] name = "chain" -> ChainSite
      [] name = "cycle" -> CycleSite
      [] name = "homeListed" -> HomeListedSite

\* The response to a GET of url (the fragment is not sent)
Respond(name, url) ==
    LET key == [url EXCEPT !.hash = FALSE] IN
    IF key \in DOMAIN SiteTable(name) THEN SiteTable(name)[key] ELSE NotFound

\* url.endsWith(".xml") on a <loc> text
XmlFiles == {"sitemap.xml", "sitemap_index.xml", "pages.xml", "internal.xml"}

EndsWithXml(u) ==
    /\ u.proto # "bad"
    /\ u.query = <<>>
    /\ ~u.hash
    /\ u.segs[Len(u.segs)] \in XmlFiles

(***************************************************************************)
(* Page records                                                            *)
(***************************************************************************)

\* The absent error field of a page
NoError == "undefined"

RECURSIVE CollectLinks(_, _, _)
\* the a[href] loop of extractPageData: normalized, same-origin, first seen first
CollectLinks(hrefs, url, seen) ==
    IF hrefs = <<>> THEN <<>>
    ELSE LET normalized == normalizeUrlWithBase(Head(hrefs), url) IN
         IF normalized # Null /\ isSameOrigin(normalized, url) /\ normalized \notin seen
         THEN <<normalized>> \o CollectLinks(Tail(hrefs), url, seen \cup {normalized})
         ELSE CollectLinks(Tail(hrefs), url, seen)

\* extractPageData(html, url, statusCode) of the extractor with derived signals
extractPageData(doc, url, statusCode) ==
    [ url |-> url, title |-> doc.title, headings |-> doc.headings,
      codeBlocks |-> doc.codeBlocks, internalLinks |-> CollectLinks(doc.hrefs, url, {}),
      mainContent |-> doc.mainContent, rawHtml |-> doc.html, statusCode |-> statusCode,
      error |-> NoError,
      hasJsonLd |-> Len(doc.jsonLdTypes) > 0, jsonLdTypes |-> doc.jsonLdTypes,
      hasFAQSchema |-> FALSE, faqItems |-> doc.faqItems,
      hasOpenAPILink |-> doc.openAPIUrl # "null", openAPIUrl |-> doc.openAPIUrl,
      hasPrerequisites |-> doc.hasPrerequisites,
      internalLinkCount |-> Len(CollectLinks(doc.hrefs, url, {})),
      externalLinkCount |-> doc.externalLinkCount, codeLanguages |-> <<>>,
      scriptCount |-> doc.scriptCount, htmlSize |-> doc.htmlSize,
      textToHtmlRatio |-> <<doc.textLength, Max(1, doc.htmlSize)>> ]

\* extractPageData of the extractor without derived signals
extractPageDataBasic(doc, url, statusCode) ==
    [ url |-> url, title |-> doc.title, headings |-> doc.headings,
      codeBlocks |-> doc.codeBlocks, internalLinks |-> CollectLinks(doc.hrefs, url, {}),
      mainContent |-> doc.mainContent, rawHtml |-> doc.html, statusCode |-> statusCode,
      error |-> NoError ]

ErroredPage_keepsStatus(url, error) ==
    [ url |-> url, title |-> "null", headings |-> <<>>, codeBlocks |-> <<>>,
      internalLinks |-> <<>>, mainContent |-> "", rawHtml |-> "", statusCode |-> 302,
      error |-> error,
      hasJsonLd |-> FALSE, jsonLdTypes |-> <<>>, hasFAQSchema |-> FALSE, faqItems |-> <<>>,
      hasOpenAPILink |-> FALSE, openAPIUrl |-> "null", hasPrerequisites |-> FALSE,
      internalLinkCount |-> 0, externalLinkCount |-> 0, codeLanguages |-> <<>>,
      scriptCount |-> 0, htmlSize |-> 0, textToHtmlRatio |-> <<0, 1>> ]

\* The page processUrl synthesizes for a failed fetch (with derived signals)
ErroredPage(url, error) ==
    [ url |-> url, title |-> "null", headings |-> <<>>, codeBlocks |-> <<>>,
      internalLinks |-> <<>>, mainContent |-> "", rawHtml |-> "", statusCode |-> 0,
      error |-> error,
      hasJsonLd |-> FALSE, jsonLdTypes |-> <<>>, hasFAQSchema |-> FALSE, faqItems |-> <<>>,
      hasOpenAPILink |-> FALSE, openAPIUrl |-> "null", hasPrerequisites |-> FALSE,
      internalLinkCount |-> 0, externalLinkCount |-> 0, codeLanguages |-> <<>>,
      scriptCount |-> 0, htmlSize |-> 0, textToHtmlRatio |-> <<0, 1>> ]

\* The page processUrl synthesizes for a failed fetch (without derived signals)
ErroredPageBasic(url, error) ==
    [ url |-> url, title |-> "null", headings |-> <<>>, codeBlocks |-> <<>>,
      internalLinks |-> <<>>, mainContent |-> "", rawHtml |-> "", statusCode |-> 0,
      error |-> error ]

(***************************************************************************)
(* The audit run: runAudit -> crawlSite -> fetchAIDiscoveryFiles           *)
(***************************************************************************)

MAX_REDIRECTS == 5

\* Bounds of the model
MaxPagesBound == 3
MaxConcurrency == 2
MaxDepthBound == 2
MaxFollow == 2
MaxSitemapFetches == 4

VARIABLES
    variant,        \* "batch": the crawlSite that commits after each batch;
                    \* "inline": the crawlSite whose processUrl commits itself
    config,         \* AuditConfig: url, maxPages, maxDepth, concurrency
    site,           \* the name of the audited site
    dns,            \* what the resolver answers now
    pc,             \* where runAudit is
    raised,         \* the error runAudit threw, or "none"
    smIndex,        \* index into getSitemapUrls(rootUrl)
    smStack,        \* the fetchSitemap calls in progress, innermost last
    smFetches,      \* the number of fetchSitemap calls so far
    visited,        \* crawlSite's visited
    toVisit,        \* crawlSite's toVisit
    pages,          \* crawlSite's pages
    errorCount,
    skippedCount,
    flights,        \* the processUrl calls of the current batch, in batch order
    requests,       \* every HTTP request sent so far
    checkedOrigins, \* the origins that passed isSSRFSafe so far
    enqueued,       \* every URL pushed to toVisit, in order
    dispatched,     \* every URL taken into a batch, in order
    skipped,        \* every URL the pre-request check of processUrl rejected, in order
    ssrfInput,      \* the argument of a call of isSSRFSafe and what DNS answers
    ssrfOutput,     \* what that call returned
    scoreInput,     \* the arguments of a call of scoreAll
    scoreOutput,    \* what that call returned
    chunkInput,     \* the page of a call of chunkPage
    chunkOutput,    \* the chunks that call returned
    normInput,      \* the arguments of a call of normalizeUrl
    normOutput,     \* what that call and the call on its result returned
    entries,        \* MemoryAnalyticsStore.entries
    resultsById,    \* MemoryAnalyticsStore.results
    recorded        \* every recordAudit call so far, in order, with the id it drew

vars == << variant, config, site, dns, pc, raised, smIndex, smStack, smFetches, visited,
           toVisit, pages, errorCount, skippedCount, flights, requests, checkedOrigins,
           enqueued, dispatched, skipped, ssrfInput, ssrfOutput, scoreInput, scoreOutput,
           chunkInput, chunkOutput, normInput, normOutput, entries, resultsById, recorded >>

\* The state of the audit run
auditVars == << variant, config, site, dns, pc, raised, smIndex, smStack, smFetches, visited,
                toVisit, pages, errorCount, skippedCount, flights, requests, checkedOrigins,
                enqueued, dispatched, skipped >>

\* The state of the calls of pure functions checked on their own
pureVars == << ssrfInput, ssrfOutput, scoreInput, scoreOutput, chunkInput, chunkOutput,
              normInput, normOutput, entries, resultsById, recorded >>

\* The state of the in-memory analytics store
storeVars == << entries, resultsById, recorded >>

\* new MemoryAnalyticsStore()
StoreEmpty == entries = <<>> /\ resultsById = <<>> /\ recorded = <<>>

ssrfVars == << ssrfInput, ssrfOutput >>

scoreVars == << scoreInput, scoreOutput >>

chunkVars == << chunkInput, chunkOutput >>

normVars == << normInput, normOutput >>

crawlVars == << visited, toVisit, pages, errorCount, skippedCount, enqueued >>

seedVars == << smIndex, smStack, smFetches >>

\* The root URLs an audit is asked for
RootUrls ==
    { RootPage,
      Url("https:", DocsHost, <<"">>, <<"ref">>, TRUE),
      Url("ftp:", DocsHost, <<"">>, <<>>, FALSE),
      PrivateUrl(<<"">>),
      Url("http:", NameHost(<<"localhost">>), <<"">>, <<>>, FALSE),
      BadUrl }

ConfigValid_ignoresBudget(c) == IsAbsolute(c.url)

\* AuditConfigSchema.parse(config): z.string().url() and positive integers
ConfigValid(c) ==
    /\ IsAbsolute(c.url)
    /\ c.maxPages > 0
    /\ c.maxDepth > 0
    /\ c.concurrency > 0

\* const rootUrl = normalizeUrl(config.url)
rootUrl == normalizeUrl(config.url)

Origin(u) == <<u.proto, u.host>>

\* The origins checkedOrigins gains by a call isSSRFSafe(u)
Passed(u, d) == IF isSSRFSafe(u, d).safe THEN {Origin(u)} ELSE {}

\* No call of a pure function is under way
NoCall == [call |-> "none"]

Init ==
    /\ variant \in {"batch", "inline"}
    /\ config \in [ url : RootUrls, maxPages : 0..MaxPagesBound,
                    maxDepth : 1..MaxDepthBound, concurrency : 1..MaxConcurrency ]
    /\ site \in SiteNames
    /\ dns = InitialDns
    /\ pc = "start"
    /\ raised = "none"
    /\ smIndex = 1
    /\ smStack = <<>>
    /\ smFetches = 0
    /\ visited = {}
    /\ toVisit = <<>>
    /\ pages = <<>>
    /\ errorCount = 0
    /\ skippedCount = 0
    /\ flights = <<>>
    /\ requests = {}
    /\ checkedOrigins = {}
    /\ enqueued = <<>>
    /\ dispatched = <<>>
    /\ skipped = <<>>
    /\ ssrfInput = NoCall /\ ssrfOutput = NoCall
    /\ scoreInput = NoCall /\ scoreOutput = NoCall
    /\ chunkInput = NoCall /\ chunkOutput = NoCall
    /\ normInput = NoCall /\ normOutput = NoCall
    /\ StoreEmpty

\* runAudit lines 9-14 and crawlSite lines 109-125: validate, check the root
Start ==
    /\ pc = "start"
    /\ IF ~ConfigValid(config)
       THEN /\ pc' = "raised"
            /\ raised' = "ZodError"
            /\ UNCHANGED checkedOrigins
       ELSE /\ checkedOrigins' = checkedOrigins \cup Passed(config.url, dns)
            /\ IF ~isSSRFSafe(config.url, dns).safe
               THEN pc' = "raised" /\ raised' = "SSRF protection"
               ELSE IF rootUrl = Null
               THEN pc' = "raised" /\ raised' = "Invalid root URL"
               ELSE pc' = "sitemap" /\ raised' = "none"
    /\ UNCHANGED << pureVars, variant, config, site, dns, seedVars, crawlVars, flights, requests,
                    dispatched, skipped >>

(***************************************************************************)
(* Sitemap seeding: crawlSite lines 127-144 and fetchSitemap               *)
(***************************************************************************)

\* fetch(url) with the default redirect mode "follow": the URLs requested, in order
RECURSIVE FollowedUrls(_, _, _)
FollowedUrls(name, url, n) ==
    LET r == Respond(name, url) IN
    IF /\ n > 0
       /\ r.kind = "redirect"
       /\ r.location # Null
       /\ ParseWithBase(r.location, url) # Null
       /\ ParseWithBase(r.location, url).proto \in {"http:", "https:"}
    THEN <<url>> \o FollowedUrls(name, ParseWithBase(r.location, url), n - 1)
    ELSE <<url>>

\* The URLs a fetch(url) that follows redirects sends requests to
FetchTargets(name, url) ==
    IF IsAbsolute(url) /\ url.proto \in {"http:", "https:"}
    THEN FollowedUrls(name, url, MaxFollow)
    ELSE <<>>

\* The response fetch(url) resolves with
FetchFollow(name, url) ==
    IF FetchTargets(name, url) = <<>> THEN NetError
    ELSE Respond(name, FetchTargets(name, url)[Len(FetchTargets(name, url))])

ResponseOk(r) == r.status >= 200 /\ r.status <= 299

\* The <loc> texts fetchSitemap reads from the response, [] when it is not ok
SitemapLocs(name, url) ==
    IF ResponseOk(FetchFollow(name, url)) THEN FetchFollow(name, url).locs ELSE <<>>

\* The log entries of requests sent without a preceding isSSRFSafe call
UncheckedRequests(targets, via, origins) ==
    { [url |-> targets[i], via |-> via, checked |-> FALSE,
       covered |-> Origin(targets[i]) \in origins] : i \in 1..Len(targets) }

\* The frontier state the seeding and discovery loops update
Frontier(v, t, e) == [visited |-> v, toVisit |-> t, enqueued |-> e]

RECURSIVE SeedFromSitemap(_, _)
\* crawlSite lines 130-136
SeedFromSitemap(urls, st) ==
    IF urls = <<>> THEN st
    ELSE LET normalized == normalizeUrl(Head(urls)) IN
         IF normalized # Null /\ isSameOrigin(normalized, rootUrl) /\ normalized \notin st.visited
         THEN SeedFromSitemap(Tail(urls),
                  Frontier(st.visited \cup {normalized},
                           Append(st.toVisit, [url |-> normalized,
                                               depth |-> getPathDepth(normalized, rootUrl)]),
                           Append(st.enqueued, normalized)))
         ELSE SeedFromSitemap(Tail(urls), st)

TopFrame == smStack[Len(smStack)]

\* fetchSitemap lines 76-90: the call for the next candidate, or the nested call
\* for a <loc> that ends with ".xml"
SitemapFetch ==
    /\ pc = "sitemap"
    /\ smFetches < MaxSitemapFetches
    /\ \/ smStack = <<>>
       \/ /\ smStack # <<>>
          /\ TopFrame.locs # <<>>
          /\ EndsWithXml(Head(TopFrame.locs))
    /\ LET target == IF smStack = <<>> THEN getSitemapUrls(rootUrl)[smIndex]
                     ELSE Head(TopFrame.locs)
           callers == IF smStack = <<>> THEN <<>>
                      ELSE [smStack EXCEPT ![Len(smStack)].locs = Tail(@)]
       IN /\ smStack' = Append(callers, [url |-> target, locs |-> SitemapLocs(site, target),
                                           urls |-> <<>>])
          /\ requests' = requests \cup
                 UncheckedRequests(FetchTargets(site, target), "sitemap", checkedOrigins)
    /\ smFetches' = smFetches + 1
    /\ UNCHANGED << pureVars, variant, config, site, dns, pc, raised, smIndex, crawlVars, flights,
                    checkedOrigins, dispatched, skipped >>

\* fetchSitemap lines 98-100: a <loc> that is a page
SitemapLoc ==
    /\ pc = "sitemap"
    /\ smStack # <<>>
    /\ TopFrame.locs # <<>>
    /\ ~EndsWithXml(Head(TopFrame.locs))
    /\ smStack' = [smStack EXCEPT ![Len(smStack)] =
                      [url |-> @.url, locs |-> Tail(@.locs),
                       urls |-> Append(@.urls, Head(@.locs))]]
    /\ UNCHANGED << pureVars, variant, config, site, dns, pc, raised, smIndex, smFetches, crawlVars,
                    flights, requests, checkedOrigins, dispatched, skipped >>

\* fetchSitemap line 103: return to the caller, which is fetchSitemap (line 97) or
\* the seeding loop of crawlSite (lines 130-137)
SitemapReturn ==
    /\ pc = "sitemap"
    /\ smStack # <<>>
    /\ TopFrame.locs = <<>>
    /\ IF Len(smStack) > 1
       THEN /\ smStack' = [SubSeq(smStack, 1, Len(smStack) - 1)
                              EXCEPT ![Len(smStack) - 1].urls = @ \o TopFrame.urls]
            /\ UNCHANGED << pc, smIndex, visited, toVisit, enqueued >>
       ELSE LET st == SeedFromSitemap(TopFrame.urls, Frontier(visited, toVisit, enqueued)) IN
            /\ smStack' = <<>>
            /\ visited' = st.visited
            /\ toVisit' = st.toVisit
            /\ enqueued' = st.enqueued
            /\ IF st.toVisit # <<>> \/ smIndex = Len(getSitemapUrls(rootUrl))
               THEN pc' = "seedRoot" /\ UNCHANGED smIndex
               ELSE pc' = "sitemap" /\ smIndex' = smIndex + 1
    /\ UNCHANGED << pureVars, variant, config, site, dns, raised, smFetches, pages, errorCount,
                    skippedCount, flights, requests, checkedOrigins, dispatched, skipped >>

\* crawlSite lines 140-144
SeedRoot ==
    /\ pc = "seedRoot"
    /\ LET rootNormalized == normalizeUrl(rootUrl) IN
       IF rootNormalized # Null /\ rootNormalized \notin visited
       THEN /\ visited' = visited \cup {rootNormalized}
            /\ toVisit' = <<[url |-> rootNormalized, depth |-> 0]>> \o toVisit
            /\ enqueued' = Append(enqueued, rootNormalized)
       ELSE UNCHANGED << visited, toVisit, enqueued >>
    /\ pc' = "loop"
    /\ UNCHANGED << pureVars, variant, config, site, dns, raised, seedVars, pages, errorCount,
                    skippedCount, flights, requests, checkedOrigins, dispatched, skipped >>

(***************************************************************************)
(* The crawl loop                                                          *)
(***************************************************************************)

RECURSIVE DiscoverLinks_noVisitedCheck(_, _, _, _)
DiscoverLinks_noVisitedCheck(links, item, pagesLength, st) ==
    IF links = <<>> THEN st
    ELSE LET normalized == normalizeUrlWithBase(Head(links), item.url) IN
         IF /\ normalized # Null
            /\ isSameOrigin(normalized, rootUrl)
            /\ Len(st.toVisit) + pagesLength < config.maxPages * 2
         THEN DiscoverLinks_noVisitedCheck(Tail(links), item, pagesLength,
                  Frontier(st.visited \cup {normalized},
                           Append(st.toVisit, [url |-> normalized, depth |-> item.depth + 1]),
                           Append(st.enqueued, normalized)))
         ELSE DiscoverLinks_noVisitedCheck(Tail(links), item, pagesLength, st)

RECURSIVE DiscoverLinks(_, _, _, _)
\* The link loop of crawlSite: every internal link of a fetched page, normalized
\* against the page, of the root's origin and not visited, is enqueued at
\* depth + 1 while toVisit.length + pages.length < maxPages * 2
DiscoverLinks(links, item, pagesLength, st) ==
    IF links = <<>> THEN st
    ELSE LET normalized == normalizeUrlWithBase(Head(links), item.url) IN
         IF /\ normalized # Null
            /\ isSameOrigin(normalized, rootUrl)
            /\ normalized \notin st.visited
            /\ Len(st.toVisit) + pagesLength < config.maxPages * 2
         THEN DiscoverLinks(Tail(links), item, pagesLength,
                  Frontier(st.visited \cup {normalized},
                           Append(st.toVisit, [url |-> normalized, depth |-> item.depth + 1]),
                           Append(st.enqueued, normalized)))
         ELSE DiscoverLinks(Tail(links), item, pagesLength, st)

BatchSize_wholeFrontier == Len(toVisit)

\* The number of frontier entries the loop body splices into the batch
BatchSize ==
    IF variant = "batch"
    THEN Min(config.concurrency, config.maxPages - Len(pages))
    ELSE config.concurrency

\* toVisit as the loop body leaves it before the splice: sorted by URL or as is
FrontierOrder ==
    IF variant = "batch" THEN SortByUrl(toVisit) ELSE toVisit

\* A processUrl call that has just started: the inline processUrl returns at once
\* when the page budget is used up
NewFlight(item) ==
    [ item |-> item,
      pc |-> IF variant = "inline" /\ Len(pages) >= config.maxPages THEN "done" ELSE "ssrf",
      currentUrl |-> item.url, redirectCount |-> 0, result |-> Null ]

LoopCondition_stopsAtFirstError ==
    toVisit # <<>> /\ Len(pages) < config.maxPages /\ errorCount = 0

LoopCondition_ignoresBudget == toVisit # <<>>

\* while (toVisit.length > 0 && pages.length < config.maxPages)
LoopCondition ==
    toVisit # <<>> /\ Len(pages) < config.maxPages

\* The loop condition holds: sort, splice a batch, start processUrl for each item
Dispatch ==
    /\ pc = "loop"
    /\ LoopCondition
    /\ LET n == Min(BatchSize, Len(toVisit))
           batch == SubSeq(FrontierOrder, 1, n)
       IN /\ toVisit' = SubSeq(FrontierOrder, n + 1, Len(toVisit))
          /\ flights' = [i \in 1..n |-> NewFlight(batch[i])]
          /\ dispatched' = dispatched \o [i \in 1..n |-> batch[i].url]
    /\ pc' = "await"
    /\ UNCHANGED << pureVars, variant, config, site, dns, raised, seedVars, visited, pages, errorCount,
                    skippedCount, requests, checkedOrigins, enqueued, skipped >>

\* processUrl: const ssrf = await isSSRFSafe(item.url); a rejected item is skipped
PreCheck(i) ==
    /\ pc = "await"
    /\ i \in 1..Len(flights)
    /\ flights[i].pc = "ssrf"
    /\ checkedOrigins' = checkedOrigins \cup Passed(flights[i].item.url, dns)
    /\ IF isSSRFSafe(flights[i].item.url, dns).safe
       THEN /\ flights' = [flights EXCEPT ![i].pc = "hop"]
            /\ UNCHANGED << skippedCount, skipped >>
       ELSE /\ flights' = [flights EXCEPT ![i].pc = "done"]
            /\ skippedCount' = skippedCount + 1
            /\ skipped' = Append(skipped, flights[i].item.url)
    /\ UNCHANGED << pureVars, variant, config, site, dns, pc, raised, seedVars, visited, toVisit, pages,
                    errorCount, requests, enqueued, dispatched >>

ChecksBeforeRequest_firstHopOnly(currentUrl, redirectCount) ==
    IF redirectCount = 0 THEN {currentUrl} ELSE {}

\* The URLs one iteration of fetchWithTimeout's loop passes to isSSRFSafe before
\* it sends its request (lines 22-26)
ChecksBeforeRequest(currentUrl, redirectCount) == {currentUrl}

CountError_countsEveryFetch(res, n) == n + 1

\* if ("error" in result) errorCount++
CountError(res, n) == IF res.kind = "error" THEN n + 1 ELSE n

\* { error }: the text "SSRF protection: <reason>" is kept by its prefix
FetchError(error) == [kind |-> "error", error |-> error]

\* One iteration of the loop of fetchWithTimeout (lines 21-58) for a response resp
\* to the request, and the catch clause (lines 62-68): the fetch continues with
\* the redirect target, fails, or returns the document
HopResult(currentUrl, redirectCount, resp) ==
    CASE resp.kind = "redirect" ->
            IF resp.location = Null THEN FetchError("Redirect without location header")
            ELSE IF ParseWithBase(resp.location, currentUrl) = Null
                 THEN FetchError("Invalid URL")
            ELSE IF redirectCount + 1 < MAX_REDIRECTS
                 THEN [kind |-> "continue", url |-> ParseWithBase(resp.location, currentUrl)]
            ELSE FetchError("Too many redirects")
      [] resp.kind = "timeout" -> FetchError("Request timeout")
      [] resp.kind = "neterror" -> FetchError("fetch failed")
      [] resp.kind \in {"nonhtml", "sitemap"} -> FetchError("Non-HTML content type")
      [] resp.kind = "html" -> [kind |-> "html", doc |-> resp.doc, statusCode |-> resp.status]

\* The page processUrl makes of the result of fetchWithTimeout
PageOf(item, res) ==
    IF res.kind = "error"
    THEN IF variant = "batch" THEN ErroredPage(item.url, res.error)
         ELSE ErroredPageBasic(item.url, res.error)
    ELSE IF variant = "batch" THEN extractPageData(res.doc, item.url, res.statusCode)
         ELSE extractPageDataBasic(res.doc, item.url, res.statusCode)

\* One iteration of fetchWithTimeout for flight i and, when the fetch ends with
\* it, the rest of processUrl: count the error, make the page; the inline
\* processUrl also pushes the page and discovers its links
Hop(i) ==
    /\ pc = "await"
    /\ i \in 1..Len(flights)
    /\ flights[i].pc = "hop"
    /\ LET f == flights[i]
           checks == ChecksBeforeRequest(f.currentUrl, f.redirectCount)
           rejected == \E u \in checks : ~isSSRFSafe(u, dns).safe
           res == IF rejected THEN FetchError("SSRF protection")
                  ELSE HopResult(f.currentUrl, f.redirectCount,
                                 Respond(site, f.currentUrl))
           page == PageOf(f.item, res)
           pushed == Append(pages, page)
           st == IF res.kind = "html" /\ f.item.depth < config.maxDepth
                 THEN DiscoverLinks(page.internalLinks, f.item, Len(pushed),
                                    Frontier(visited, toVisit, enqueued))
                 ELSE Frontier(visited, toVisit, enqueued)
       IN /\ checkedOrigins' = checkedOrigins \cup
                                 UNION {Passed(u, dns) : u \in checks}
          /\ requests' = IF rejected THEN requests
                         ELSE requests \cup
                              {[url |-> f.currentUrl, via |-> "page",
                                checked |-> f.currentUrl \in checks,
                                covered |-> Origin(f.currentUrl) \in checkedOrigins']}
          /\ errorCount' = CountError(res, errorCount)
          /\ IF res.kind = "continue"
             THEN /\ flights' = [flights EXCEPT ![i].currentUrl = res.url,
                                                ![i].redirectCount = @ + 1]
                  /\ UNCHANGED << visited, toVisit, pages, enqueued >>
             ELSE IF variant = "batch"
             THEN /\ flights' = [flights EXCEPT ![i].pc = "done", ![i].result = page]
                  /\ UNCHANGED << visited, toVisit, pages, enqueued >>
             ELSE /\ flights' = [flights EXCEPT ![i].pc = "done"]
                  /\ pages' = pushed
                  /\ visited' = st.visited
                  /\ toVisit' = st.toVisit
                  /\ enqueued' = st.enqueued
    /\ UNCHANGED << pureVars, variant, config, site, dns, pc, raised, seedVars, skippedCount,
                    dispatched, skipped >>

AllFlightsDone == \A i \in 1..Len(flights) : flights[i].pc = "done"

\* results.sort((a, b) => a.item.url.localeCompare(b.item.url))
SortedResults ==
    LET tagged == [i \in 1..Len(flights) |->
                      [url |-> flights[i].item.url, item |-> flights[i].item,
                       result |-> flights[i].result]]
    IN SortByUrl(tagged)

RECURSIVE AcceptResults(_, _, _)
\* The loop over the sorted results of a batch: a result is pushed while the page
\* budget lasts, and the links of a page fetched without error are discovered
AcceptResults(results, pgs, st) ==
    IF results = <<>> THEN [pages |-> pgs, frontier |-> st]
    ELSE LET r == Head(results) IN
         IF r.result # Null /\ Len(pgs) < config.maxPages
         THEN AcceptResults(Tail(results), Append(pgs, r.result),
                  IF r.result.error = NoError /\ r.item.depth < config.maxDepth
                  THEN DiscoverLinks(r.result.internalLinks, r.item, Len(pgs) + 1, st)
                  ELSE st)
         ELSE AcceptResults(Tail(results), pgs, st)

\* Promise.all has resolved in the batch crawlSite: accept the results of the batch
CommitBatch ==
    /\ pc = "await"
    /\ variant = "batch"
    /\ AllFlightsDone
    /\ LET acc == AcceptResults(SortedResults, pages, Frontier(visited, toVisit, enqueued)) IN
       /\ pages' = acc.pages
       /\ visited' = acc.frontier.visited
       /\ toVisit' = acc.frontier.toVisit
       /\ enqueued' = acc.frontier.enqueued
    /\ flights' = <<>>
    /\ pc' = "loop"
    /\ UNCHANGED << pureVars, variant, config, site, dns, raised, seedVars, errorCount, skippedCount,
                    requests, checkedOrigins, dispatched, skipped >>

\* Promise.all has resolved in the inline crawlSite: back to the loop condition
ResumeLoop ==
    /\ pc = "await"
    /\ variant = "inline"
    /\ AllFlightsDone
    /\ flights' = <<>>
    /\ pc' = "loop"
    /\ UNCHANGED << pureVars, variant, config, site, dns, raised, seedVars, crawlVars, requests,
                    checkedOrigins, dispatched, skipped >>

\* The loop condition fails: crawlSite returns (the batch crawlSite sorts pages)
ReturnCrawl ==
    /\ pc = "loop"
    /\ ~LoopCondition
    /\ pages' = IF variant = "batch" THEN SortByUrl(pages) ELSE pages
    /\ pc' = "crawled"
    /\ UNCHANGED << pureVars, variant, config, site, dns, raised, seedVars, visited, toVisit,
                    errorCount, skippedCount, flights, requests, checkedOrigins, enqueued,
                    dispatched, skipped >>

(***************************************************************************)
(* fetchAIDiscoveryFiles (ai-discovery.ts), by the requests it sends       *)
(***************************************************************************)

\* fetchTextFile(url): isSSRFSafe(url), then a fetch that follows redirects
TextFileRequests(url, d, origins) ==
    IF ~isSSRFSafe(url, d).safe THEN {}
    ELSE LET targets == FetchTargets(site, url) IN
         { [url |-> targets[i], via |-> "text",
            checked |-> i = 1,
            covered |-> Origin(targets[i]) \in origins \cup {Origin(url)}] :
           i \in 1..Len(targets) }

\* The text fetchTextFile(url) returns is not empty
TextFileFound(url, d) ==
    isSSRFSafe(url, d).safe /\ ResponseOk(FetchFollow(site, url))

\* `${baseUrl.protocol}//${baseUrl.host}` + path
BaseUrl(segs) == Url(config.url.proto, config.url.host, segs, <<>>, FALSE)

RECURSIVE SitemapInfoRequests(_, _, _)
\* fetchSitemapInfo: the candidates in order until one has content
SitemapInfoRequests(candidates, d, origins) ==
    IF candidates = <<>> THEN {}
    ELSE TextFileRequests(Head(candidates), d, origins) \cup
         (IF TextFileFound(Head(candidates), d) THEN {}
          ELSE SitemapInfoRequests(Tail(candidates), d, origins))

\* aiPageUrls of checkAILandingPage
AiPageUrls ==
    << BaseUrl(<<"ai">>), BaseUrl(<<"llm">>), BaseUrl(<<"llms">>), BaseUrl(<<"ai.html">>),
       BaseUrl(<<"for-ai">>) >>

RECURSIVE LandingPageRequests(_, _, _)
\* checkAILandingPage: the candidates in order until one is a page about AI
LandingPageRequests(candidates, d, origins) ==
    IF candidates = <<>> THEN {}
    ELSE TextFileRequests(Head(candidates), d, origins) \cup
         (IF /\ TextFileFound(Head(candidates), d)
             /\ FetchFollow(site, Head(candidates)).doc.aiContent
          THEN {}
          ELSE LandingPageRequests(Tail(candidates), d, origins))

\* runAudit lines 19-22: fetchAIDiscoveryFiles(validatedConfig, pages.length)
FetchAIDiscoveryFiles ==
    /\ pc = "crawled"
    /\ requests' = requests
           \cup TextFileRequests(BaseUrl(<<"llms.txt">>), dns, checkedOrigins)
           \cup TextFileRequests(BaseUrl(<<"ai.txt">>), dns, checkedOrigins)
           \cup TextFileRequests(BaseUrl(<<"robots.txt">>), dns, checkedOrigins)
           \cup SitemapInfoRequests(getSitemapUrls(config.url), dns, checkedOrigins)
           \cup LandingPageRequests(AiPageUrls, dns, checkedOrigins)
    /\ checkedOrigins' = checkedOrigins \cup Passed(BaseUrl(<<"llms.txt">>), dns)
    /\ pc' = "done"
    /\ UNCHANGED << pureVars, variant, config, site, dns, raised, seedVars, crawlVars, flights,
                    dispatched, skipped >>

\* The environment: the site's name starts to resolve to a private address too
DnsRebind ==
    /\ pc \in {"loop", "await"}
    /\ dns = InitialDns
    /\ dns' = [dns EXCEPT ![DocsHost.labels] = {PublicIp, PrivateIp}]
    /\ UNCHANGED << pureVars, variant, config, site, pc, raised, seedVars, crawlVars, flights,
                    requests, checkedOrigins, dispatched, skipped >>

Next ==
    \/ Start
    \/ SitemapFetch
    \/ SitemapLoc
    \/ SitemapReturn
    \/ SeedRoot
    \/ Dispatch
    \/ \E i \in 1..MaxConcurrency : PreCheck(i)
    \/ \E i \in 1..MaxConcurrency : Hop(i)
    \/ CommitBatch
    \/ ResumeLoop
    \/ ReturnCrawl
    \/ FetchAIDiscoveryFiles
    \/ DnsRebind

Spec == Init /\ [][Next]_vars

(***************************************************************************)
(* isSSRFSafe on its own: one call on a URL and the answer of the resolver *)
(***************************************************************************)

MaxAnswers == 2

\* Addresses inside and at the edges of the ranges isPrivateIP names
SsrfAddresses ==
    { V4(10, 0, 5), V4(11, 0, 5), V4(127, 0, 1), V4(127, 1, 1), V4(169, 254, 254),
      V4(169, 253, 1), V4(172, 15, 1), V4(172, 16, 1), V4(172, 31, 1), V4(172, 32, 1),
      V4(192, 168, 1), V4(192, 169, 1), V4(93, 184, 34), V4(0, 0, 0),
      V6(0, 1), V6(0, 2), V6(Hfe80, 1), V6(Hfe80 + 16, 1), V6(Hfe80 + 63, 1),
      V6(Hfe80 + 64, 1), V6(Hfc00, 1), V6(Hfc00 + 511, 1), V6(Hfd00, 1), V6(Hfd00 + 18, 1),
      V6(8193, 1) }

RECURSIVE SubsetsUpTo(_, _)
\* The subsets of S of at most k elements
SubsetsUpTo(S, k) ==
    IF k = 0 THEN {{}}
    ELSE SubsetsUpTo(S, k - 1) \cup {x \cup {a} : x \in SubsetsUpTo(S, k - 1), a \in S}

SsrfNames == { <<"docs", "example", "com">>, <<"localhost">>, <<"printer", "local">> }

SsrfProtocols == {"http:", "https:", "ftp:", "file:"}

\* A call of isSSRFSafe: the URL and, for a DNS name, the addresses it resolves to
SsrfInputs ==
    { [url |-> Url(p, NameHost(n), <<"">>, <<>>, FALSE), ips |-> a] :
        p \in SsrfProtocols, n \in SsrfNames,
        a \in SubsetsUpTo(SsrfAddresses, MaxAnswers) }
    \cup { [url |-> Url(p, IpHost(ip), <<"">>, <<>>, FALSE), ips |-> {}] :
             p \in SsrfProtocols, ip \in SsrfAddresses }
    \cup { [url |-> BadUrl, ips |-> {}], [url |-> RelRef(<<"a">>, <<>>, FALSE), ips |-> {}] }

\* The audit is not running
AuditIdle ==
    /\ variant = "batch"
    /\ config = [url |-> RootPage, maxPages |-> 1, maxDepth |-> 1, concurrency |-> 1]
    /\ site = "plain"
    /\ dns = InitialDns
    /\ pc = "idle"
    /\ raised = "none"
    /\ smIndex = 1
    /\ smStack = <<>>
    /\ smFetches = 0
    /\ visited = {}
    /\ toVisit = <<>>
    /\ pages = <<>>
    /\ errorCount = 0
    /\ skippedCount = 0
    /\ flights = <<>>
    /\ requests = {}
    /\ checkedOrigins = {}
    /\ enqueued = <<>>
    /\ dispatched = <<>>
    /\ skipped = <<>>

InitSSRF ==
    /\ AuditIdle
    /\ ssrfInput \in SsrfInputs
    /\ ssrfOutput = NoCall
    /\ scoreInput = NoCall /\ scoreOutput = NoCall
    /\ chunkInput = NoCall /\ chunkOutput = NoCall
    /\ normInput = NoCall /\ normOutput = NoCall
    /\ StoreEmpty

\* await isSSRFSafe(urlString)
CallIsSSRFSafe ==
    /\ ssrfInput # NoCall
    /\ ssrfOutput = NoCall
    /\ ssrfOutput' = isSSRFSafe(ssrfInput.url,
                         IF ssrfInput.url.host.kind = "name"
                         THEN (ssrfInput.url.host.labels :> ssrfInput.ips)
                         ELSE <<>>)
    /\ UNCHANGED << auditVars, ssrfInput, scoreVars, chunkVars, normVars, storeVars >>

NextSSRF == CallIsSSRFSafe

SpecSSRF == InitSSRF /\ [][NextSSRF]_vars

(***************************************************************************)
(* Properties                                                              *)
(***************************************************************************)

\* crawlSite has returned
Returned == pc \in {"crawled", "done"}

PageRequests == {r \in requests : r.via = "page"}

PageUrls == {pages[i].url : i \in 1..Len(pages)}

Errored(p) == p.error # NoError

RECURSIVE RedirectsToUnsafe(_, _)
\* Following at most n redirects from url, over targets isSSRFSafe accepts, leads
\* to a redirect whose target isSSRFSafe rejects
RedirectsToUnsafe(url, n) ==
    /\ n > 0
    /\ Respond(site, url).kind = "redirect"
    /\ Respond(site, url).location # Null
    /\ ParseWithBase(Respond(site, url).location, url) # Null
    /\ \/ ~isSSRFSafe(ParseWithBase(Respond(site, url).location, url), InitialDns).safe
       \/ RedirectsToUnsafe(ParseWithBase(Respond(site, url).location, url), n - 1)

\* The fetch of url ends at a redirect to a target isSSRFSafe rejects
EndsAtUnsafeRedirect(url) == RedirectsToUnsafe(url, MAX_REDIRECTS - 1)

\* C1: for every config with maxPages = N and every order in which the fetches
\* of a batch complete, crawlSite returns at most N pages, errored pages included
C1_AtMostMaxPages ==
    Returned => Len(pages) <= config.maxPages

\* C2: every URL a page fetch sends a request to, the first and every redirect
\* target, passed isSSRFSafe immediately before the request; an unsafe redirect
\* target gets no request and the fetch ends with an SSRF-protection error
C2_EveryHopChecked ==
    /\ \A r \in PageRequests : r.checked /\ isSSRFSafe(r.url, InitialDns).safe
    /\ \A i \in 1..Len(pages) :
          EndsAtUnsafeRedirect(pages[i].url) => pages[i].error = "SSRF protection"

\* C2 witness: a fetch followed a redirect to a safe target, and another fetch
\* ended at a redirect to a private address
C2_Witness ==
    /\ \E r \in PageRequests : r.url \notin {dispatched[i] : i \in 1..Len(dispatched)}
    /\ \E i \in 1..Len(pages) :
          EndsAtUnsafeRedirect(pages[i].url) /\ pages[i].error = "SSRF protection"

\* C3: every request of an audit (page fetches, sitemap fetches with the nested
\* sitemaps, the text files and probes of the AI discovery, and every redirect
\* followed) goes to a URL whose origin passed isSSRFSafe before the request
C3_EveryRequestChecked ==
    \A r \in requests : r.covered

\* The ranges 10/8, 172.16/12, 192.168/16, 127/8, 169.254/16, ::1, fe80::/10, fc00::/7
InPrivateRange(ip) ==
    \/ ip.fam = 4 /\ ip.a = 10
    \/ ip.fam = 4 /\ ip.a = 172 /\ ip.b \in 16..31
    \/ ip.fam = 4 /\ ip.a = 192 /\ ip.b = 168
    \/ ip.fam = 4 /\ ip.a = 127
    \/ ip.fam = 4 /\ ip.a = 169 /\ ip.b = 254
    \/ ip.fam = 6 /\ ip.a = 0 /\ ip.d = 1
    \/ ip.fam = 6 /\ ip.a \in Hfe80..(Hfe80 + 63)
    \/ ip.fam = 6 /\ ip.a \in Hfc00..(Hfc00 + 511)

\* localhost, the loopback literals, the .local suffix
BlockListed(host) ==
    \/ host.kind = "name" /\ host.labels = <<"localhost">>
    \/ host.kind = "name" /\ Len(host.labels) >= 2 /\ host.labels[Len(host.labels)] = "local"
    \/ host.kind = "ip" /\ host.ip \in {V4(127, 0, 1), V6(0, 1)}

MustBeUnsafe(in) ==
    \/ ~IsAbsolute(in.url)
    \/ in.url.proto \notin {"http:", "https:"}
    \/ BlockListed(in.url.host)
    \/ in.url.host.kind = "ip" /\ InPrivateRange(in.url.host.ip)
    \/ in.url.host.kind = "name" /\ \E ip \in in.ips : InPrivateRange(ip)

MustBeSafe(in) ==
    /\ IsAbsolute(in.url)
    /\ in.url.proto \in {"http:", "https:"}
    /\ in.url.host.kind = "name"
    /\ ~BlockListed(in.url.host)
    /\ in.ips # {}
    /\ \A ip \in in.ips : ~InPrivateRange(ip) /\ ~(ip.fam = 4 /\ ip.a = 0)

\* C4: isSSRFSafe answers unsafe for a scheme other than http/https, a
\* block-listed host, and a host that is or resolves to an address in 10/8,
\* 172.16/12, 192.168/16, 127/8, 169.254/16, ::1, fe80::/10 or fc00::/7 (bracketed
\* IPv6 literals included), and safe for an http(s) URL whose host resolves only
\* to public addresses
C4_PrivateRangesRejected ==
    ssrfOutput # NoCall =>
        /\ MustBeUnsafe(ssrfInput) => ~ssrfOutput.safe
        /\ MustBeSafe(ssrfInput) => ssrfOutput.safe

\* pages is in the order of a.url.localeCompare(b.url)
IsSortedByUrl(pgs) ==
    \A i, j \in 1..Len(pgs) : i < j => ~UrlLess(pgs[j].url, pgs[i].url)

\* C5: for a fixed site and config the result of crawlSite (the pages, their
\* order, errorCount, skippedCount) is the same for every order in which the
\* responses arrive, and the pages list is sorted by URL
C5_SortedWhateverTheArrivalOrder ==
    (Returned /\ dns = InitialDns) => IsSortedByUrl(pages)

NoDuplicates(s) == \A i, j \in 1..Len(s) : i # j => s[i] # s[j]

\* Nothing is in the frontier, in a batch or in pages without being in visited
OnlyVisitedUrls ==
    /\ \A i \in 1..Len(enqueued) : enqueued[i] \in visited
    /\ \A i \in 1..Len(toVisit) : toVisit[i].url \in visited
    /\ \A i \in 1..Len(dispatched) : dispatched[i] \in visited
    /\ PageUrls \subseteq visited

\* C6: during a crawl visited only grows, every normalized URL is added to the
\* frontier at most once and dispatched at most once, and pages never holds two
\* entries of the same URL
C6_VisitedOnceEach ==
    /\ [](/\ NoDuplicates(enqueued)
          /\ NoDuplicates(dispatched)
          /\ NoDuplicates([i \in 1..Len(pages) |-> pages[i].url])
          /\ OnlyVisitedUrls)
    /\ [][visited \subseteq visited']_vars

\* C6 witness: the crawl returned the page /a, which links back to the root and
\* which both the root and /b link to
C6_Witness ==
    /\ Returned
    /\ site = "plain"
    /\ Len(pages) = 3
    /\ \E i \in 1..Len(pages) :
          /\ pages[i].url = Pg(<<"a">>)
          /\ \E k \in 1..Len(pages[i].internalLinks) : pages[i].internalLinks[k] \in visited

\* The config or the root URL is one crawling must not start with
RootRejected ==
    \/ config.maxPages < 1 \/ config.maxDepth < 1 \/ config.concurrency < 1
    \/ config.url = BadUrl
    \/ ~isSSRFSafe(config.url, InitialDns).safe
    \/ rootUrl = Null

\* C7: with an invalid config or an unsafe or unparsable root URL runAudit raises
\* an error without having sent any request (no sitemap fetch, no page fetch) and
\* without pages
C7_FailsBeforeAnyRequest ==
    RootRejected =>
        /\ pc \in {"start", "raised"}
        /\ pc = "raised" => raised # "none"
        /\ requests = {}
        /\ smFetches = 0
        /\ dispatched = <<>>
        /\ pages = <<>>

\* C7 witness: runAudit has raised for a config the schema accepts whose root URL
\* is unsafe
C7_Witness ==
    /\ pc = "raised"
    /\ raised = "SSRF protection"
    /\ config.maxPages >= 1
    /\ requests = {}

RECURSIVE FetchFails(_, _)
\* fetchWithTimeout(url) with n requests left throws: a timeout, a network error,
\* a content type that is not HTML, a redirect without location, a redirect to a
\* rejected target, or more redirects than it follows
FetchFails(url, n) ==
    \/ n = 0
    \/ Respond(site, url).kind \in {"timeout", "neterror", "nonhtml", "sitemap"}
    \/ /\ Respond(site, url).kind = "redirect"
       /\ \/ Respond(site, url).location = Null
          \/ ParseWithBase(Respond(site, url).location, url) = Null
          \/ ~isSSRFSafe(ParseWithBase(Respond(site, url).location, url), InitialDns).safe
          \/ FetchFails(ParseWithBase(Respond(site, url).location, url), n - 1)

\* The page recorded for the URL u, if there is one
PagesOf(u) == {i \in 1..Len(pages) : pages[i].url = u}

\* C8: no failure of the fetch of one URL makes crawlSite raise; the failed URL
\* is recorded as one errored page, and the other URLs of the batch and of the
\* frontier are processed until the frontier is empty or the budget is reached
C8_FailuresStayLocal ==
    /\ raised # "none" => pc = "raised" /\ dispatched = <<>>
    /\ pc = "loop" \/ Returned =>
          /\ Len(pages) + skippedCount = Len(dispatched)
          /\ \A i \in 1..Len(dispatched) :
                FetchFails(dispatched[i], MAX_REDIRECTS) /\ skippedCount = 0 =>
                    /\ Cardinality(PagesOf(dispatched[i])) = 1
                    /\ \A k \in PagesOf(dispatched[i]) : Errored(pages[k])
    /\ Returned => toVisit = <<>> \/ Len(pages) >= config.maxPages

\* C8 witness: crawlSite returned, and a URL dispatched after one whose fetch
\* failed has its page
C8_Witness ==
    /\ Returned
    /\ \E i, j \in 1..Len(dispatched) :
          /\ i < j
          /\ FetchFails(dispatched[i], MAX_REDIRECTS)
          /\ \A k \in PagesOf(dispatched[i]) : Errored(pages[k])
          /\ PagesOf(dispatched[i]) # {}
          /\ PagesOf(dispatched[j]) # {}

\* The root passes the safety check and answers with a redirect to a target
\* isSSRFSafe rejects, and the crawl that fetched it has returned
RootRedirectedToPrivate ==
    /\ Returned
    /\ RedirectsToUnsafe(rootUrl, 1)
    /\ \E r \in PageRequests : r.url = rootUrl

\* C9 as stated: when the root passes the check and redirects to a private
\* address, no request goes to the private address, errorCount counts the
\* rejected hop, and pages holds no entry for the root
C9_NoPageForRoot ==
    RootRedirectedToPrivate =>
        /\ \A r \in requests : isSSRFSafe(r.url, InitialDns).safe
        /\ errorCount >= 1
        /\ PagesOf(rootUrl) = {}

\* C9: when the root passes the check and redirects to a private address, no
\* request goes to the private address, the fetch of the root fails with the
\* SSRF-protection error, the root is recorded as one errored page with status 0
\* and no content, and errorCount counts it
C9_RootRecordedAsErroredPage ==
    RootRedirectedToPrivate =>
        /\ \A r \in requests : isSSRFSafe(r.url, InitialDns).safe
        /\ errorCount >= 1
        /\ Cardinality(PagesOf(rootUrl)) = 1
        /\ \A k \in PagesOf(rootUrl) :
              /\ pages[k].error = "SSRF protection"
              /\ pages[k].statusCode = 0
              /\ pages[k].rawHtml = ""

\* C9 witness: the crawl of the site whose root redirects to http://10.0.0.5/internal
\* has returned with the root fetched
C9_Witness ==
    /\ RootRedirectedToPrivate
    /\ Respond(site, rootUrl).location = PrivateUrl(<<"internal">>)
    /\ errorCount = 1

\* The derived signals of p, where the page type has them, are at their defaults
DerivedDefaults(p) ==
    "hasJsonLd" \in DOMAIN p =>
        /\ ~p.hasJsonLd /\ p.jsonLdTypes = <<>>
        /\ ~p.hasFAQSchema /\ p.faqItems = <<>>
        /\ ~p.hasOpenAPILink /\ p.openAPIUrl = "null"
        /\ ~p.hasPrerequisites
        /\ p.internalLinkCount = 0 /\ p.externalLinkCount = 0
        /\ p.codeLanguages = <<>>
        /\ p.scriptCount = 0 /\ p.htmlSize = 0
        /\ p.textToHtmlRatio[1] = 0

\* The pages of the result and the results of the batch under way
PageRecords ==
    {pages[i] : i \in 1..Len(pages)}
    \cup {flights[i].result : i \in {k \in 1..Len(flights) : flights[k].result # Null}}

\* C10: a page whose error is set has status 0, empty mainContent, rawHtml,
\* headings, code blocks and internal links and the derived signals at their
\* defaults; a page the extractor made never has error set
C10_ErroredPagesAreEmpty ==
    \A p \in PageRecords :
        /\ Errored(p) =>
              /\ p.statusCode = 0
              /\ p.mainContent = "" /\ p.rawHtml = ""
              /\ p.headings = <<>> /\ p.codeBlocks = <<>> /\ p.internalLinks = <<>>
              /\ DerivedDefaults(p)
        /\ p.statusCode # 0 => ~Errored(p)

\* C10 witness: the result holds an errored page and a page the extractor made
\* that has content
C10_Witness ==
    /\ Returned
    /\ \E i, j \in 1..Len(pages) :
          /\ Errored(pages[i]) /\ "hasJsonLd" \in DOMAIN pages[i]
          /\ ~Errored(pages[j]) /\ pages[j].internalLinks # <<>>

\* C11: on return from crawlSite errorCount is the number of returned pages whose
\* error is set and skippedCount is the number of frontier URLs the pre-request
\* SSRF check rejected; a skipped URL is not in pages and adds nothing to errorCount
C11_CountersMatchPages ==
    Returned =>
        /\ errorCount = Cardinality({k \in 1..Len(pages) : Errored(pages[k])})
        /\ skippedCount = Len(skipped)
        /\ \A i \in 1..Len(skipped) : PagesOf(skipped[i]) = {}
        /\ errorCount + skippedCount <= Len(dispatched)

\* C11 witness: the crawl returned with a URL skipped and with an errored page
C11_Witness ==
    /\ Returned
    /\ skippedCount >= 1
    /\ errorCount >= 1
    /\ Len(pages) >= 2

(***************************************************************************)
(* scoreAll (scorer.ts).  A page is given by the facts the scorer reads of  *)
(* it, the pages by the number of pages of each kind, the chunks by the     *)
(* number of chunks of each size class.                                     *)
(***************************************************************************)

MAX_CATEGORY_SCORE == 20

\* The pages of a kind, per unit of Copies, and the chunks of a size class
MaxPerKind == 1

\* createFinding(severity, message, urls, detail), the message by a short name
Finding(severity, id) == [severity |-> severity, id |-> id]

\* The facts scoreAll reads of a page
PageFacts(error, hasJsonLd, faq, richTypes, hasOpenAPILink, apiContent, contentLength,
          internalLinkCount, h1Count, skipsLevel, fresh, statusCode) ==
    [ error |-> error, hasJsonLd |-> hasJsonLd, faq |-> faq, richTypes |-> richTypes,
      hasOpenAPILink |-> hasOpenAPILink, apiContent |-> apiContent,
      contentLength |-> contentLength, internalLinkCount |-> internalLinkCount,
      h1Count |-> h1Count, skipsLevel |-> skipsLevel, fresh |-> fresh,
      statusCode |-> statusCode ]

PageKinds == {"errored", "reference", "guide", "stub", "article"}

\* errored: the page of a failed fetch; reference: an API reference with JSON-LD
\* of a rich type and an OpenAPI link; guide: a plain well-made page; stub: a
\* thin 404 page with FAQ and API wording; article: a page with generic JSON-LD
Facts(kind) ==
    CASE kind = "errored" ->
            PageFacts(TRUE, FALSE, FALSE, FALSE, FALSE, FALSE, 0, 0, 0, FALSE, FALSE, 0)
      [] kind = "reference" ->
            PageFacts(FALSE, TRUE, FALSE, TRUE, TRUE, TRUE, 2000, 6, 1, FALSE, TRUE, 200)
      [] kind = "guide" ->
            PageFacts(FALSE, FALSE, FALSE, FALSE, FALSE, FALSE, 2000, 4, 1, FALSE, TRUE, 200)
      [] kind = "stub" ->
            PageFacts(FALSE, FALSE, TRUE, FALSE, FALSE, TRUE, 120, 1, 0, TRUE, FALSE, 404)
      [] kind = "article" ->
            PageFacts(FALSE, TRUE, FALSE, FALSE, FALSE, FALSE, 2000, 8, 2, FALSE, FALSE, 200)

\* pages.filter(P).length
CountPages(pgs, P(_)) ==
    (IF P(Facts("errored")) THEN pgs["errored"] ELSE 0)
    + (IF P(Facts("reference")) THEN pgs["reference"] ELSE 0)
    + (IF P(Facts("guide")) THEN pgs["guide"] ELSE 0)
    + (IF P(Facts("stub")) THEN pgs["stub"] ELSE 0)
    + (IF P(Facts("article")) THEN pgs["article"] ELSE 0)

\* pages.reduce((sum, p) => sum + F(p), 0)
SumPages(pgs, F(_)) ==
    F(Facts("errored")) * pgs["errored"]
    + F(Facts("reference")) * pgs["reference"]
    + F(Facts("guide")) * pgs["guide"]
    + F(Facts("stub")) * pgs["stub"]
    + F(Facts("article")) * pgs["article"]

\* pages.filter((p) => !p.error): the same pages without the errored ones
ValidPages(pgs) == [pgs EXCEPT !["errored"] = 0]

IsAnyPage(p) == TRUE

PagesLength(pgs) == CountPages(pgs, IsAnyPage)

\* Math.ceil(a / b) for a >= 0 and b > 0
CeilDiv(a, b) == (a + b - 1) \div b

\* { name, score: Math.max(0, score), max: MAX_CATEGORY_SCORE, findings }
CategoryResult(name, score, findings) ==
    [name |-> name, score |-> Max(0, score), max |-> MAX_CATEGORY_SCORE, findings |-> findings]

\* One scoring step: the deduction and the findings it pushes
Step(deduction, findings) == [deduction |-> deduction, findings |-> findings]

NoStep == Step(0, <<>>)

RECURSIVE SumDeductions(_)
SumDeductions(steps) ==
    IF steps = <<>> THEN 0 ELSE Head(steps).deduction + SumDeductions(Tail(steps))

RECURSIVE AllStepFindings(_)
AllStepFindings(steps) ==
    IF steps = <<>> THEN <<>> ELSE Head(steps).findings \o AllStepFindings(Tail(steps))

\* let score = MAX_CATEGORY_SCORE, then the steps in order
Scored(name, steps) ==
    CategoryResult(name, MAX_CATEGORY_SCORE - SumDeductions(steps), AllStepFindings(steps))

\* scoreAICrawlAccessibility lines 36-90: llms.txt
LlmsTxtStep(llmsTxt) ==
    IF ~llmsTxt.exists THEN Step(6, <<Finding("high", "llms-missing")>>)
    ELSE LET issues ==
                 (IF ~llmsTxt.hasProductDescription
                  THEN <<Step(2, <<Finding("med", "llms-description")>>)>> ELSE <<>>)
                 \o (IF ~llmsTxt.hasDocumentationLinks
                     THEN <<Step(2, <<Finding("med", "llms-links")>>)>> ELSE <<>>)
                 \o (IF ~llmsTxt.hasUseCases
                     THEN <<Step(1, <<Finding("low", "llms-usecases")>>)>> ELSE <<>>)
         IN IF issues = <<>> THEN Step(0, <<Finding("pass", "llms-ok")>>)
            ELSE Step(SumDeductions(issues), AllStepFindings(issues))

\* scoreAICrawlAccessibility lines 92-148: robots.txt
RobotsTxtStep(robotsTxt) ==
    IF ~robotsTxt.exists THEN Step(3, <<Finding("med", "robots-missing")>>)
    ELSE LET issues ==
                 (IF robotsTxt.blocksAICrawlers
                  THEN <<Step(4, <<Finding("high", "robots-blocks")>>)>>
                  ELSE IF ~robotsTxt.allowsAICrawlers /\ robotsTxt.aiCrawlerRules = 0
                  THEN <<Step(1, <<Finding("low", "robots-silent")>>)>>
                  ELSE <<>>)
                 \o (IF ~robotsTxt.mentionsSitemap
                     THEN <<Step(1, <<Finding("low", "robots-sitemap")>>)>> ELSE <<>>)
         IN IF issues = <<>> THEN Step(0, <<Finding("pass", "robots-ok")>>)
            ELSE Step(SumDeductions(issues), AllStepFindings(issues))

\* scoreAICrawlAccessibility lines 150-194: the sitemap
SitemapStep(sitemap, pagesLength) ==
    IF ~sitemap.exists THEN Step(4, <<Finding("high", "sitemap-missing")>>)
    ELSE LET issues ==
                 (IF ~sitemap.hasLastmod
                  THEN <<Step(1, <<Finding("low", "sitemap-lastmod")>>)>> ELSE <<>>)
                 \o (IF sitemap.coveragePercent < 50 /\ pagesLength > 10
                     THEN <<Step(1, <<Finding("med", "sitemap-coverage")>>)>> ELSE <<>>)
         IN IF issues = <<>> THEN Step(0, <<Finding("pass", "sitemap-ok")>>)
            ELSE Step(SumDeductions(issues), AllStepFindings(issues))

scoreAICrawlAccessibility(aiFiles, pgs) ==
    Scored("AI Crawl Accessibility",
           << LlmsTxtStep(aiFiles.llmsTxt), RobotsTxtStep(aiFiles.robotsTxt),
              SitemapStep(aiFiles.sitemap, PagesLength(pgs)) >>)

HasJsonLd(p) == p.hasJsonLd

HasFaq(p) == p.faq

HasRichTypes(p) == p.hasJsonLd /\ p.richTypes

HasOpenAPILink(p) == p.hasOpenAPILink

HasApiContent(p) == p.apiContent

\* scoreStructuredDataAndMachineReadability lines 213-256: jsonLdRatio < 0.1,
\* < 0.5, or more
JsonLdStep(validPages) ==
    LET withJsonLd == CountPages(validPages, HasJsonLd)
        n == PagesLength(validPages)
    IN IF withJsonLd * 10 < n
       THEN IF CountPages(validPages, HasFaq) > 0
            THEN Step(3, <<Finding("med", "jsonld-faq")>>)
            ELSE Step(1, <<Finding("low", "jsonld-none")>>)
       ELSE IF withJsonLd * 2 < n
       THEN Step(0, <<Finding("low", "jsonld-partial")>>)
       ELSE Step(0, <<Finding("pass", "jsonld-ok")>>)

\* lines 258-280
RichTypesStep(validPages) ==
    LET hasRichTypes == CountPages(validPages, HasRichTypes) > 0 IN
    IF ~hasRichTypes /\ CountPages(validPages, HasJsonLd) > 0
    THEN Step(2, <<Finding("low", "jsonld-generic")>>)
    ELSE IF hasRichTypes THEN Step(0, <<Finding("pass", "jsonld-rich")>>)
    ELSE NoStep

\* lines 282-306
OpenAPIStep(validPages) ==
    IF CountPages(validPages, HasOpenAPILink) = 0
    THEN IF CountPages(validPages, HasApiContent) > 0
         THEN Step(5, <<Finding("high", "openapi-missing")>>)
         ELSE NoStep
    ELSE Step(0, <<Finding("pass", "openapi-ok")>>)

scoreStructuredDataAndMachineReadability(pgs) ==
    LET validPages == ValidPages(pgs) IN
    IF PagesLength(validPages) = 0
    THEN CategoryResult("Structured Data & Machine Readability", 0, <<>>)
    ELSE Scored("Structured Data & Machine Readability",
                << JsonLdStep(validPages), RichTypesStep(validPages), OpenAPIStep(validPages) >>)

IsThin(p) == p.contentLength > 0 /\ p.contentLength < 300

\* scoreContentSelfContainment lines 329-363
ThinContentStep(validPages, jsRendered) ==
    LET thin == CountPages(validPages, IsThin)
        n == PagesLength(validPages)
    IN IF jsRendered THEN Step(10, <<Finding("high", "js-rendered")>>)
       ELSE IF thin * 5 > n
       THEN Step(Min(5, CeilDiv(thin * 10, n)), <<Finding("high", "thin-content")>>)
       ELSE Step(0, <<Finding("pass", "content-ok")>>)

\* chunks.length
ChunksLength(chunks) == chunks.short + chunks.good + chunks.long

\* scoreContentSelfContainment lines 365-401
ChunkSizeSteps(chunks) ==
    LET len == ChunksLength(chunks)
        tooManyShort == chunks.short * 10 > len * 3
        tooManyLong == chunks.long * 5 > len
    IN << IF tooManyShort
          THEN Step(Min(3, CeilDiv(chunks.short * 6, len)), <<Finding("med", "chunks-short")>>)
          ELSE NoStep,
          IF tooManyLong THEN Step(2, <<Finding("low", "chunks-long")>>) ELSE NoStep,
          IF ~tooManyShort /\ ~tooManyLong /\ len > 0
          THEN Step(0, <<Finding("pass", "chunks-ok")>>) ELSE NoStep >>

scoreContentSelfContainment(pgs, chunks, jsRendered) ==
    LET validPages == ValidPages(pgs) IN
    IF PagesLength(validPages) = 0
    THEN CategoryResult("Content Self-Containment", 0, <<>>)
    ELSE Scored("Content Self-Containment",
                <<ThinContentStep(validPages, jsRendered)>> \o ChunkSizeSteps(chunks))

InternalLinkCount(p) == p.internalLinkCount

HasBadH1(p) == p.h1Count # 1

SkipsLevel(p) == p.skipsLevel

IsFresh(p) == p.fresh

IsErrorPage(p) == p.error \/ (p.statusCode >= 400 /\ p.statusCode < 600)

\* scoreDocumentationArchitecture lines 422-452
LinkingStep(validPages) ==
    LET sum == SumPages(validPages, InternalLinkCount)
        n == PagesLength(validPages)
    IN IF sum < 3 * n THEN Step(5, <<Finding("high", "links-low")>>)
       ELSE IF sum < 5 * n THEN Step(2, <<Finding("med", "links-moderate")>>)
       ELSE Step(0, <<Finding("pass", "links-ok")>>)

\* lines 454-477
H1Step(validPages) ==
    LET bad == CountPages(validPages, HasBadH1)
        n == PagesLength(validPages)
    IN IF bad * 5 > n
       THEN Step(Min(4, CeilDiv(bad * 8, n)), <<Finding("med", "h1-bad")>>)
       ELSE Step(0, <<Finding("pass", "h1-ok")>>)

\* lines 479-504
HierarchyStep(validPages) ==
    IF CountPages(validPages, SkipsLevel) * 10 > PagesLength(validPages) * 3
    THEN Step(2, <<Finding("low", "levels-skipped")>>)
    ELSE Step(0, <<Finding("pass", "levels-ok")>>)

\* lines 506-534
FreshnessStep(validPages) ==
    IF CountPages(validPages, IsFresh) * 10 < PagesLength(validPages) * 3
    THEN Step(3, <<Finding("med", "freshness-low")>>)
    ELSE Step(0, <<Finding("pass", "freshness-ok")>>)

\* lines 536-553, over all the pages
ErrorRateStep(pgs) ==
    IF CountPages(pgs, IsErrorPage) * 10 > PagesLength(pgs)
    THEN Step(2, <<Finding("med", "error-rate")>>)
    ELSE Step(0, <<Finding("pass", "error-rate-ok")>>)

scoreDocumentationArchitecture(pgs) ==
    LET validPages == ValidPages(pgs) IN
    IF PagesLength(validPages) = 0
    THEN CategoryResult("Documentation Architecture", 0, <<>>)
    ELSE Scored("Documentation Architecture",
                << LinkingStep(validPages), H1Step(validPages), HierarchyStep(validPages),
                   FreshnessStep(validPages), ErrorRateStep(pgs) >>)

\* Math.round((totalScore / maxTotal) * 100) in IEEE double arithmetic: the
\* quotient is rounded before it is multiplied, and (46 / 80) * 100 is
\* 57.49999999999999; the other totals up to 80 give the exactly rounded value
OverallScore(totalScore, maxTotal) ==
    IF totalScore = 46 /\ maxTotal = 80 THEN 57
    ELSE (200 * totalScore + maxTotal) \div (2 * maxTotal)

RECURSIVE SumScores(_)
SumScores(categories) ==
    IF categories = <<>> THEN 0 ELSE Head(categories).score + SumScores(Tail(categories))

RECURSIVE SumMaxes(_)
SumMaxes(categories) ==
    IF categories = <<>> THEN 0 ELSE Head(categories).max + SumMaxes(Tail(categories))

RECURSIVE AllFindings(_)
\* categories.flatMap((cat) => cat.findings.map((f) => ({ ...f, category: cat.name })))
AllFindings(categories) ==
    IF categories = <<>> THEN <<>>
    ELSE [i \in 1..Len(Head(categories).findings) |->
             [severity |-> Head(categories).findings[i].severity,
              id |-> Head(categories).findings[i].id,
              category |-> Head(categories).name]]
         \o AllFindings(Tail(categories))

\* severityOrder
SeverityOrder(severity) ==
    CASE severity = "high" -> 0
      [] severity = "med" -> 1
      [] severity = "low" -> 2
      [] severity = "pass" -> 3

IsIssue(f) == f.severity # "pass"

IssueFindings_keepsPass(allFindings) == allFindings

\* allFindings.filter(f => f.severity !== "pass")
IssueFindings(allFindings) == SelectSeq(allFindings, IsIssue)

RECURSIVE InsertBySeverity(_, _)
InsertBySeverity(f, sorted) ==
    IF sorted = <<>> THEN <<f>>
    ELSE IF SeverityOrder(f.severity) < SeverityOrder(Head(sorted).severity)
         THEN <<f>> \o sorted
    ELSE <<Head(sorted)>> \o InsertBySeverity(f, Tail(sorted))

RECURSIVE SortBySeverity(_)
\* issueFindings.sort((a, b) => severityOrder[a.severity] - severityOrder[b.severity]),
\* a stable sort
SortBySeverity(findings) ==
    IF findings = <<>> THEN <<>>
    ELSE InsertBySeverity(findings[Len(findings)],
                          SortBySeverity(SubSeq(findings, 1, Len(findings) - 1)))

\* sortedFindings.slice(0, 10)
TopFindings(sortedFindings) == SubSeq(sortedFindings, 1, Min(10, Len(sortedFindings)))

scoreAll(pgs, chunks, aiFiles, jsRendered) ==
    LET categories == << scoreAICrawlAccessibility(aiFiles, pgs),
                         scoreStructuredDataAndMachineReadability(pgs),
                         scoreContentSelfContainment(pgs, chunks, jsRendered),
                         scoreDocumentationArchitecture(pgs) >>
    IN [ categories |-> categories,
         overallScore |-> OverallScore(SumScores(categories), SumMaxes(categories)),
         topFindings |-> TopFindings(SortBySeverity(IssueFindings(AllFindings(categories)))) ]

\* The inputs of scoreAll that are checked
LlmsTxtInputs ==
    { [exists |-> FALSE, hasProductDescription |-> FALSE, hasDocumentationLinks |-> FALSE,
       hasUseCases |-> FALSE],
      [exists |-> TRUE, hasProductDescription |-> FALSE, hasDocumentationLinks |-> FALSE,
       hasUseCases |-> FALSE],
      [exists |-> TRUE, hasProductDescription |-> TRUE, hasDocumentationLinks |-> TRUE,
       hasUseCases |-> TRUE] }

RobotsTxtInputs ==
    { [exists |-> FALSE, blocksAICrawlers |-> FALSE, allowsAICrawlers |-> FALSE,
       aiCrawlerRules |-> 0, mentionsSitemap |-> FALSE],
      [exists |-> TRUE, blocksAICrawlers |-> TRUE, allowsAICrawlers |-> FALSE,
       aiCrawlerRules |-> 1, mentionsSitemap |-> FALSE],
      [exists |-> TRUE, blocksAICrawlers |-> FALSE, allowsAICrawlers |-> FALSE,
       aiCrawlerRules |-> 0, mentionsSitemap |-> TRUE],
      [exists |-> TRUE, blocksAICrawlers |-> FALSE, allowsAICrawlers |-> TRUE,
       aiCrawlerRules |-> 1, mentionsSitemap |-> TRUE] }

SitemapInputs ==
    { [exists |-> FALSE, hasLastmod |-> FALSE, coveragePercent |-> 0],
      [exists |-> TRUE, hasLastmod |-> FALSE, coveragePercent |-> 40],
      [exists |-> TRUE, hasLastmod |-> TRUE, coveragePercent |-> 100] }

\* A site is Copies times a choice of at most MaxPerKind pages of each kind
Copies == {1, 6}

PagesInputs ==
    { [k \in PageKinds |-> c[k] * m] : c \in [PageKinds -> 0..MaxPerKind], m \in Copies }

\* No chunks; well-sized ones only; many short; many long; short and long only
ChunksInputs ==
    { [short |-> 0, good |-> 0, long |-> 0], [short |-> 0, good |-> 2, long |-> 0],
      [short |-> 2, good |-> 2, long |-> 0], [short |-> 0, good |-> 2, long |-> 2],
      [short |-> 2, good |-> 0, long |-> 2] }

ScoreInputs ==
    [ pages : PagesInputs, chunks : ChunksInputs,
      aiFiles : [llmsTxt : LlmsTxtInputs, robotsTxt : RobotsTxtInputs, sitemap : SitemapInputs],
      jsRendered : BOOLEAN ]

InitScore ==
    /\ AuditIdle
    /\ scoreInput \in ScoreInputs
    /\ scoreOutput = NoCall
    /\ ssrfInput = NoCall /\ ssrfOutput = NoCall
    /\ chunkInput = NoCall /\ chunkOutput = NoCall
    /\ normInput = NoCall /\ normOutput = NoCall
    /\ StoreEmpty

\* scoreAll(pages, chunks, aiFiles, jsRenderedWarning)
CallScoreAll ==
    /\ scoreInput # NoCall
    /\ scoreOutput = NoCall
    /\ scoreOutput' = scoreAll(scoreInput.pages, scoreInput.chunks, scoreInput.aiFiles,
                               scoreInput.jsRendered)
    /\ UNCHANGED << auditVars, scoreInput, ssrfVars, chunkVars, normVars, storeVars >>

NextScore == CallScoreAll

SpecScore == InitScore /\ [][NextScore]_vars

\* C12: for every input each category result of scoreAll has an integer score
\* with 0 <= score <= 20 = max, and overallScore is
\* round(100 * sum of the scores / sum of the maxes) and lies in 0..100
C12_ScoresInRange ==
    scoreOutput # NoCall =>
        /\ \A i \in 1..Len(scoreOutput.categories) :
              /\ scoreOutput.categories[i].score \in 0..20
              /\ scoreOutput.categories[i].max = 20
        /\ scoreOutput.overallScore \in 0..100
        /\ LET sum == SumScores(scoreOutput.categories)
               maxes == SumMaxes(scoreOutput.categories)
           IN \* round(100 * sum / maxes) is the integer r with 2r - 1 <= 200 sum / maxes < 2r + 1
              /\ (2 * scoreOutput.overallScore - 1) * maxes <= 200 * sum
              /\ 200 * sum < (2 * scoreOutput.overallScore + 1) * maxes

\* The findings of all categories of the result, in category order
ResultFindings == AllFindings(scoreOutput.categories)

\* In the findings all, the one at place k comes before the one at place m in
\* priority: a lower severity rank, or the same rank and an earlier place
Precedes(all, k, m) ==
    \/ SeverityOrder(all[k].severity) < SeverityOrder(all[m].severity)
    \/ SeverityOrder(all[k].severity) = SeverityOrder(all[m].severity) /\ k < m

\* The places in all of the findings of top, 0 for one that is not in all
PlacesOf(top, all) ==
    [i \in 1..Len(top) |->
        IF \E k \in 1..Len(all) : all[k] = top[i]
        THEN CHOOSE k \in 1..Len(all) : all[k] = top[i]
        ELSE 0]

\* C13: topFindings has no pass finding and at most 10 entries, lists every
\* high before every med before every low, keeps findings of equal severity in
\* their original order, and omits a finding that is not a pass only when 10
\* findings of equal or higher priority precede it
C13_TopFindingsOrdered ==
    scoreOutput # NoCall =>
        LET top == scoreOutput.topFindings
            all == ResultFindings
            place == PlacesOf(top, all)
        IN /\ Len(top) <= 10
           /\ \A i \in 1..Len(top) : top[i].severity # "pass" /\ place[i] # 0
           /\ \A i \in 1..(Len(top) - 1) : Precedes(all, place[i], place[i + 1])
           /\ \A k \in 1..Len(all) :
                 (all[k].severity # "pass" /\ \A i \in 1..Len(top) : place[i] # k)
                 => /\ Len(top) = 10
                    /\ Precedes(all, place[10], k)

\* C13 witness: more than 10 findings are issues, passes are among the findings,
\* and a later category's high comes before an earlier category's med
C13_Witness ==
    /\ scoreOutput # NoCall
    /\ Len(scoreOutput.topFindings) = 10
    /\ Len(IssueFindings(ResultFindings)) > 10
    /\ \E k \in 1..Len(ResultFindings) : ResultFindings[k].severity = "pass"
    /\ \E i \in 1..9 :
          /\ scoreOutput.topFindings[i].severity = "high"
          /\ scoreOutput.topFindings[i + 1].severity = "med"
          /\ scoreOutput.topFindings[i].category = "Documentation Architecture"
          /\ scoreOutput.topFindings[i + 1].category = "AI Crawl Accessibility"

\* No page of the input is valid
NoValidPages == PagesLength(ValidPages(scoreInput.pages)) = 0

\* C14: when the crawl yields no valid page (no pages, or errored pages only)
\* every category of scoreAll has score 0 and no findings and overallScore is 0,
\* whatever the AI discovery files are
C14_NoValidPagesScoresZero ==
    (scoreOutput # NoCall /\ NoValidPages) =>
        /\ \A i \in 1..Len(scoreOutput.categories) :
              /\ scoreOutput.categories[i].score = 0
              /\ scoreOutput.categories[i].findings = <<>>
        /\ scoreOutput.overallScore = 0

\* C15: with at least one valid page every category has findings; a category
\* whose score is its max has pass findings only, and a category whose score is
\* below its max has a finding that is not a pass
C15_FindingsExplainScore ==
    (scoreOutput # NoCall /\ ~NoValidPages) =>
        \A i \in 1..Len(scoreOutput.categories) :
            LET cat == scoreOutput.categories[i] IN
            /\ cat.findings # <<>>
            /\ cat.score = cat.max =>
                  \A k \in 1..Len(cat.findings) : cat.findings[k].severity = "pass"
            /\ cat.score < cat.max =>
                  \E k \in 1..Len(cat.findings) : cat.findings[k].severity # "pass"

(***************************************************************************)
(* The chunker (src/server/audit/chunker.ts).  A string is the sequence of *)
(* its sentence-like units: body characters that are none of . ! ?, then   *)
(* stop characters out of . ! ?, then white space.  A unit with no stop    *)
(* character is text no full stop ends.  An occurrence of the text of one  *)
(* of the page's headings is a unit of its own, named by the heading.      *)
(* page.mainContent is what the extractor leaves: white space collapsed to *)
(* single blanks, and trimmed.                                             *)
(***************************************************************************)

DEFAULT_CHUNK_SIZE == 1500

MIN_CHUNK_SIZE == 100

MAX_CHUNK_SIZE == 3000

\* The number of units of a page's content
MaxUnits == 3

Sentence(body, stop, space) ==
    [heading |-> "", body |-> body, stop |-> stop, space |-> space]

\* An occurrence of the heading "Intro" in the content
HeadingText(name, space) ==
    [heading |-> name, body |-> 5, stop |-> 0, space |-> space]

\* text.length
RECURSIVE TextLength(_)
TextLength(text) ==
    IF text = <<>> THEN 0
    ELSE Head(text).body + Head(text).stop + Head(text).space + TextLength(Tail(text))

\* text.trim(): no string here starts with white space
Trim(text) ==
    IF text = <<>> THEN text ELSE [text EXCEPT ![Len(text)].space = 0]

\* Math.ceil(text.length / 4)
estimateTokens(text) == CeilDiv(TextLength(text), 4)

\* { pageUrl, content, tokenEstimate, headingContext }
ContentChunk(pageUrl, content, tokenEstimate, headingContext) ==
    [ pageUrl |-> pageUrl, content |-> content, tokenEstimate |-> tokenEstimate,
      headingContext |-> headingContext ]

IsTerminated(unit) == unit.stop >= 1

\* text.match(/[^.!?]+[.!?]+\s*/g) || [text]: the units a stop character ends,
\* each a string; the whole text when there is none
Sentences(text) ==
    LET matches == SelectSeq(text, IsTerminated)
    IN  IF matches = <<>> THEN << text >>
        ELSE [i \in 1..Len(matches) |-> << matches[i] >>]

ExceedsTarget_usesHardMax(length, maxSize) == length > MAX_CHUNK_SIZE

\* (currentChunk + sentence).length > maxSize
ExceedsTarget(length, maxSize) == length > maxSize

\* The for loop of chunkBySize and the push after it
RECURSIVE Accumulate(_, _, _, _, _, _)
Accumulate(sentences, currentChunk, chunks, pageUrl, headingContext, maxSize) ==
    IF sentences = <<>>
    THEN IF TextLength(Trim(currentChunk)) >= MIN_CHUNK_SIZE
         THEN Append(chunks, ContentChunk(pageUrl, Trim(currentChunk),
                                          estimateTokens(currentChunk), headingContext))
         ELSE chunks
    ELSE LET sentence == Head(sentences)
         IN  IF /\ ExceedsTarget(TextLength(currentChunk \o sentence), maxSize)
                /\ TextLength(currentChunk) >= MIN_CHUNK_SIZE
             THEN Accumulate(Tail(sentences), sentence,
                             Append(chunks, ContentChunk(pageUrl, Trim(currentChunk),
                                                         estimateTokens(currentChunk),
                                                         headingContext)),
                             pageUrl, headingContext, maxSize)
             ELSE Accumulate(Tail(sentences), currentChunk \o sentence, chunks,
                             pageUrl, headingContext, maxSize)

chunkBySize(text, pageUrl, headingContext, maxSize) ==
    IF TextLength(text) <= maxSize
    THEN IF TextLength(text) >= MIN_CHUNK_SIZE
         THEN << ContentChunk(pageUrl, text, estimateTokens(text), headingContext) >>
         ELSE <<>>
    ELSE Accumulate(Sentences(text), <<>>, <<>>, pageUrl, headingContext, maxSize)

\* The for loop of chunkPage over content.split(regex) and the push after it
RECURSIVE SplitByHeadings(_, _, _, _, _)
SplitByHeadings(parts, currentHeading, currentContent, chunks, pageUrl) ==
    LET section ==
            IF TextLength(Trim(currentContent)) >= MIN_CHUNK_SIZE
            THEN chunkBySize(Trim(currentContent), pageUrl, currentHeading,
                             DEFAULT_CHUNK_SIZE)
            ELSE <<>>
    IN  IF parts = <<>> THEN chunks \o section
        ELSE IF Head(parts).heading # ""
        THEN SplitByHeadings(Tail(parts), Head(parts).heading, <<>>, chunks \o section,
                             pageUrl)
        ELSE SplitByHeadings(Tail(parts), currentHeading,
                             currentContent \o << Head(parts) >>, chunks, pageUrl)

chunkPage(page) ==
    IF TextLength(page.mainContent) < MIN_CHUNK_SIZE THEN <<>>
    ELSE IF page.headings = {}
    THEN chunkBySize(page.mainContent, page.url, page.title, DEFAULT_CHUNK_SIZE)
    ELSE SplitByHeadings(page.mainContent, page.title, <<>>, <<>>, page.url)

\* The body lengths of the units: just under the minimum, under the target, and
\* above the hard maximum
BodySizes == {98, 99, 1450, 3100}

SentenceUnits ==
    {Sentence(b, stop, space) : b \in BodySizes, stop \in {0, 1}, space \in {0, 1}}

HeadingUnits == {HeadingText("Intro", space) : space \in {0, 1}}

SeqsUpTo(S, n) == UNION {[1..k -> S] : k \in 0..n}

\* A unit no stop character ends is the end of the string or of a section
WellFormed(text) ==
    \A i \in 1..(Len(text) - 1) :
        (text[i].heading = "" /\ text[i].stop = 0) => text[i + 1].heading # ""

\* text().replace(/\s+/g, " ").trim() of the extractor
TextInputs == {Trim(t) : t \in {u \in SeqsUpTo(SentenceUnits, MaxUnits) : WellFormed(u)}}

ContentInputs ==
    {Trim(t) : t \in {u \in SeqsUpTo(SentenceUnits \cup HeadingUnits, MaxUnits) :
                         WellFormed(u)}}

PageInput(headings, mainContent) ==
    [url |-> "page", title |-> "Title", headings |-> headings, mainContent |-> mainContent]

PageInputs ==
    {PageInput({}, t) : t \in TextInputs}
    \cup {PageInput({"Intro"}, c) : c \in ContentInputs}

MaxSizeInputs == {150, DEFAULT_CHUNK_SIZE}

ChunkInputs ==
    {[call |-> "chunkPage", page |-> p] : p \in PageInputs}
    \cup {[call |-> "chunkBySize", text |-> t, maxSize |-> m] :
              t \in TextInputs, m \in MaxSizeInputs}

InitChunk ==
    /\ AuditIdle
    /\ chunkInput \in ChunkInputs
    /\ chunkOutput = NoCall
    /\ ssrfInput = NoCall /\ ssrfOutput = NoCall
    /\ scoreInput = NoCall /\ scoreOutput = NoCall
    /\ normInput = NoCall /\ normOutput = NoCall
    /\ StoreEmpty

\* chunkPage(page)
CallChunkPage ==
    /\ chunkInput.call = "chunkPage"
    /\ chunkOutput = NoCall
    /\ chunkOutput' = [chunks |-> chunkPage(chunkInput.page)]
    /\ UNCHANGED << auditVars, chunkInput, ssrfVars, scoreVars, normVars, storeVars >>

\* chunkBySize(text, pageUrl, headingContext, maxSize)
CallChunkBySize ==
    /\ chunkInput.call = "chunkBySize"
    /\ chunkOutput = NoCall
    /\ chunkOutput' = [chunks |-> chunkBySize(chunkInput.text, "page", "Title",
                                              chunkInput.maxSize)]
    /\ UNCHANGED << auditVars, chunkInput, ssrfVars, scoreVars, normVars, storeVars >>

NextChunk == CallChunkPage \/ CallChunkBySize

SpecChunk == InitChunk /\ [][NextChunk]_vars

\* The chunks of the call that returned
EmittedChunks ==
    IF chunkOutput = NoCall THEN {}
    ELSE {chunkOutput.chunks[i] : i \in 1..Len(chunkOutput.chunks)}

\* C16: every chunk chunkPage or chunkBySize emits has a content of at least
\* MIN_CHUNK_SIZE (100) characters; shorter fragments are never emitted
C16_ChunksMeetMinimum ==
    \A c \in EmittedChunks : TextLength(c.content) >= 100

\* C17: every emitted chunk's tokenEstimate is ceil(L / 4), L the number of
\* characters of the chunk's (trimmed) content
C17_TokenEstimateOfContent ==
    \A c \in EmittedChunks : c.tokenEstimate = (TextLength(c.content) + 3) \div 4

\* C19: no chunk chunkPage or chunkBySize emits is longer than MAX_CHUNK_SIZE
\* (3000 characters)
C19_ChunksWithinHardMaximum ==
    \A c \in EmittedChunks : TextLength(c.content) <= 3000

\* The target of the size-based chunking of the call
TargetSize ==
    IF chunkInput.call = "chunkBySize" THEN chunkInput.maxSize ELSE 1500

\* The chunk is within the target, or the sentences before its last one total
\* fewer than MIN_CHUNK_SIZE characters
WithinTargetOrOneLongSentence(c, maxSize) ==
    \/ TextLength(c.content) <= maxSize
    \/ TextLength(SubSeq(c.content, 1, Len(c.content) - 1)) < 100

\* chunkBySize has returned for a text of several sentences longer than maxSize
SeveralSentencesOverTarget ==
    /\ chunkOutput # NoCall
    /\ chunkInput.call = "chunkBySize"
    /\ Len(chunkInput.text) >= 2
    /\ \A i \in 1..Len(chunkInput.text) : chunkInput.text[i].stop >= 1
    /\ TextLength(chunkInput.text) > chunkInput.maxSize

\* Every sentence of the text has MIN_CHUNK_SIZE characters or more, trailing
\* white space not counted
EverySentenceMeetsMinimum ==
    \A i \in 1..Len(chunkInput.text) :
        chunkInput.text[i].body + chunkInput.text[i].stop >= 100

\* C18 as stated: in size-based chunking every emitted chunk is at most
\* maxSize long unless the sentences before its last sentence total fewer than
\* MIN_CHUNK_SIZE characters, and a text longer than maxSize made of several
\* sentences yields more than one chunk
C18_AnyLongTextIsSplit ==
    /\ \A c \in EmittedChunks : WithinTargetOrOneLongSentence(c, TargetSize)
    /\ SeveralSentencesOverTarget => Len(chunkOutput.chunks) > 1

\* C18 as amended: in size-based chunking every emitted chunk is at most
\* maxSize long unless the sentences before its last sentence total fewer than
\* MIN_CHUNK_SIZE characters, and a text longer than maxSize made of several
\* sentences, each of MIN_CHUNK_SIZE characters or more without its trailing
\* white space, yields more than one chunk
C18_LongTextOfFullSentencesIsSplit ==
    /\ \A c \in EmittedChunks : WithinTargetOrOneLongSentence(c, TargetSize)
    /\ (SeveralSentencesOverTarget /\ EverySentenceMeetsMinimum) =>
           Len(chunkOutput.chunks) > 1

C18_Witness ==
    /\ SeveralSentencesOverTarget
    /\ EverySentenceMeetsMinimum
    /\ Len(chunkOutput.chunks) > 1
    /\ \E c \in EmittedChunks : TextLength(c.content) > TargetSize

(***************************************************************************)
(* normalizeUrl on its own (src/unnamed/part_002), applied to a URL string *)
(* and then to the string it returned.                                     *)
(***************************************************************************)

\* The segments of a path and the parameters of a query
MaxSegs == 3

MaxParams == 2

PathInputs == UNION {[1..k -> {"a", ""}] : k \in 1..MaxSegs}

QueryInputs == UNION {[1..k -> {"utm_source", "page"}] : k \in 0..MaxParams}

NormalizeInputs ==
    {[call |-> "normalizeUrl", url |-> u, base |-> b] :
        u \in {Url("https:", DocsHost, segs, query, hash) :
                  segs \in PathInputs, query \in QueryInputs, hash \in BOOLEAN}
              \cup {RelRef(segs, query, hash) :
                  segs \in PathInputs, query \in QueryInputs, hash \in BOOLEAN}
              \cup {BadUrl},
        b \in {Null, ExternalUrl}}

InitNormalize ==
    /\ AuditIdle
    /\ normInput \in NormalizeInputs
    /\ normOutput = NoCall
    /\ ssrfInput = NoCall /\ ssrfOutput = NoCall
    /\ scoreInput = NoCall /\ scoreOutput = NoCall
    /\ chunkInput = NoCall /\ chunkOutput = NoCall
    /\ StoreEmpty

\* normalizeUrl(urlString, baseUrl), or normalizeUrl(urlString)
CallNormalizeUrl ==
    /\ normInput # NoCall
    /\ normOutput = NoCall
    /\ normOutput' = [results |->
                        << IF normInput.base = Null THEN normalizeUrl(normInput.url)
                           ELSE normalizeUrlWithBase(normInput.url, normInput.base) >>]
    /\ UNCHANGED << auditVars, normInput, ssrfVars, scoreVars, chunkVars, storeVars >>

\* normalizeUrl(s) of the string s the first call returned
CallNormalizeUrlAgain ==
    /\ normOutput # NoCall
    /\ Len(normOutput.results) = 1
    /\ normOutput.results[1] # Null
    /\ normOutput' = [results |-> Append(normOutput.results,
                                         normalizeUrl(normOutput.results[1]))]
    /\ UNCHANGED << auditVars, normInput, ssrfVars, scoreVars, chunkVars, storeVars >>

NextNormalize == CallNormalizeUrl \/ CallNormalizeUrlAgain

SpecNormalize == InitNormalize /\ [][NextNormalize]_vars

\* C20: normalizeUrl is idempotent: whenever normalizeUrl(u), with or without a
\* base, returns a string s, normalizeUrl(s) = s, and s has no fragment, no
\* tracking parameter and no trailing slash on a path other than the root
C20_NormalizeIsIdempotent ==
    /\ (normOutput # NoCall /\ normOutput.results[1] # Null) =>
          LET s == normOutput.results[1]
          IN  /\ ~s.hash
              /\ \A i \in 1..Len(s.query) :
                    s.query[i] \notin {"utm_source", "utm_medium", "utm_campaign",
                                       "utm_term", "utm_content", "ref", "source"}
              /\ s.segs = <<"">> \/ s.segs[Len(s.segs)] # ""
    /\ (normOutput # NoCall /\ Len(normOutput.results) = 2) =>
          normOutput.results[2] = normOutput.results[1]

(***************************************************************************)
(* The crawl: depth, batches, budget, redirects, termination               *)
(***************************************************************************)

\* C21: no page deeper than maxDepth is crawled: every URL taken into a batch
\* has a depth (link distance, or path depth for a sitemap URL) of at most
\* config.maxDepth
C21_DispatchedWithinMaxDepth ==
    \A i \in 1..Len(flights) : flights[i].item.depth <= config.maxDepth

\* Some processUrl call of the current batch has not returned yet
FetchInFlight == \E i \in 1..Len(flights) : flights[i].pc # "done"

\* C22: visited, toVisit and pages are mutated only after all fetches of the
\* current batch have completed: no step changes them while a fetch of the
\* batch is still in flight
C22_MutatedOnlyBetweenBatches ==
    [][(pc = "await" /\ FetchInFlight') =>
           (visited' = visited /\ toVisit' = toVisit /\ pages' = pages)]_vars

\* The processUrl calls whose fetch has not completed
InFlight == {i \in 1..Len(flights) : flights[i].pc # "done"}

\* C23: at every moment the number of page fetches in flight is at most
\* config.concurrency, and no URL of a later batch is dispatched before every
\* fetch of the previous batch has completed
C23_BatchesOfAtMostConcurrency ==
    /\ [](Cardinality(InFlight) <= config.concurrency)
    /\ [][dispatched' # dispatched => InFlight = {}]_vars

C23_Witness ==
    /\ Cardinality(InFlight) = 2
    /\ config.concurrency = 2
    /\ Len(dispatched) >= 3

\* C24: link discovery never enqueues a URL while frontier size + recorded
\* pages >= 2 * maxPages, so at every point of the crawl loop frontier size +
\* recorded pages is at most 2 * maxPages
C24_FrontierWithinTwiceTheBudget ==
    pc \in {"loop", "await"} => Len(toVisit) + Len(pages) <= 2 * config.maxPages

RECURSIVE RedirectsFrom(_, _)
\* The number of redirects the site answers with from url on, counted up to n
RedirectsFrom(url, n) ==
    LET r == Respond(site, url) IN
    IF /\ n > 0
       /\ r.kind = "redirect"
       /\ r.location # Null
       /\ ParseWithBase(r.location, url) # Null
    THEN 1 + RedirectsFrom(ParseWithBase(r.location, url), n - 1)
    ELSE 0

RECURSIVE AnswerAfterRedirects(_, _)
\* The response at the end of the chain of redirects from url, of at most n
AnswerAfterRedirects(url, n) ==
    LET r == Respond(site, url) IN
    IF /\ n > 0
       /\ r.kind = "redirect"
       /\ r.location # Null
       /\ ParseWithBase(r.location, url) # Null
    THEN AnswerAfterRedirects(ParseWithBase(r.location, url), n - 1)
    ELSE r

\* C25: a page fetch follows up to 5 redirects: a chain of k <= 5 redirects
\* that ends in an HTML response gives that response, only a chain of more than
\* 5 redirects ends with the error "Too many redirects", and a page fetch
\* issues at most 6 requests
C25_FiveRedirectsFollowed ==
    /\ \A i \in 1..Len(flights) : flights[i].redirectCount + 1 <= 6
    /\ \A k \in 1..Len(pages) :
          /\ pages[k].error = "Too many redirects" => RedirectsFrom(pages[k].url, 6) > 5
          /\ (/\ dns = InitialDns
              /\ RedirectsFrom(pages[k].url, 6) <= 5
              /\ ~RedirectsToUnsafe(pages[k].url, 6)
              /\ AnswerAfterRedirects(pages[k].url, 6).kind = "html")
             => pages[k].error = NoError

\* Promise.all of the batch crawlSite has resolved and its continuation is due
BatchResolved == pc = "await" /\ variant = "batch" /\ AllFlightsDone

\* The crawl under its scheduling: the event loop runs the continuation of the
\* loop when it is ready, and every fetch that was dispatched completes
SpecLive ==
    /\ Spec
    /\ WF_vars(Dispatch)
    /\ WF_vars(ResumeLoop)
    /\ WF_vars(ReturnCrawl)
    /\ []<>(~BatchResolved)
    /\ \A i \in 1..MaxConcurrency : []<>(i \notin InFlight)

\* C26: provided every dispatched fetch completes, the crawl loop terminates,
\* and when it has terminated the frontier is empty or the number of recorded
\* pages has reached maxPages
C26_CrawlLoopTerminates ==
    /\ (pc \in {"loop", "await"}) ~> (pc = "crawled")
    /\ [](pc = "crawled" => (toVisit = <<>> \/ Len(pages) >= config.maxPages))

C26_Witness ==
    /\ pc = "crawled"
    /\ toVisit # <<>>
    /\ Len(pages) >= config.maxPages
    /\ Len(dispatched) >= 3

\* C27: sitemap seeding terminates for every sitemap graph: the recursion over
\* nested .xml sitemaps is bounded, so no sitemap file is fetched again inside
\* its own fetch (the site answering the same, that would repeat without end)
C27_SitemapRecursionBounded ==
    \A i, j \in 1..Len(smStack) : i # j => smStack[i].url # smStack[j].url


\* C28: the normalized root URL is among the URLs of the first batch, and when
\* crawlSite returns it is not left in the frontier
C28_RootInFirstBatch ==
    /\ dispatched # <<>> =>
           \E i \in 1..Min(config.concurrency, Len(dispatched)) :
               dispatched[i] = normalizeUrl(rootUrl)
    /\ pc = "crawled" => \A k \in 1..Len(toVisit) : toVisit[k].url # normalizeUrl(rootUrl)


(***************************************************************************)
(* Size-based chunking: what becomes of the text                           *)
(***************************************************************************)

\* The contents of the chunks one after the other
RECURSIVE ConcatContents(_)
ConcatContents(chunks) ==
    IF chunks = <<>> THEN <<>> ELSE Head(chunks).content \o ConcatContents(Tail(chunks))

\* The same characters but for white space after a unit, which trim() removes
EqualUpToTrimming(a, b) ==
    /\ Len(a) = Len(b)
    /\ \A i \in 1..Len(a) : a[i].body = b[i].body /\ a[i].stop = b[i].stop

\* C29: for a text longer than maxSize, the chunk contents of chunkBySize in
\* order are the text up to trimming at chunk boundaries, less a trailing
\* fragment of fewer than MIN_CHUNK_SIZE characters
C29_SizeChunkingKeepsText ==
    (/\ chunkInput.call = "chunkBySize"
     /\ chunkOutput # NoCall
     /\ TextLength(chunkInput.text) > chunkInput.maxSize) =>
        \E k \in 0..Len(chunkInput.text) :
            /\ EqualUpToTrimming(ConcatContents(chunkOutput.chunks),
                                 SubSeq(chunkInput.text, 1, k))
            /\ TextLength(SubSeq(chunkInput.text, k + 1, Len(chunkInput.text)))
                   < MIN_CHUNK_SIZE


(***************************************************************************)
(* The in-memory analytics store                                           *)
(***************************************************************************)

\* The capacity of the store: this.entries.length > 1000 in recordAudit, scaled
MaxEntries == 3

\* The number of recordAudit calls of a run
MaxRecords == 5

\* The undefined Map.get returns for a key it does not hold
Undefined == [undefined |-> TRUE]

\* new URL(url).hostname without a leading "www."; the host names of the model
\* are in lower case and end in no dot, so toLowerCase and replace change nothing
getDomainFromUrl(url) ==
    LET hostname == url.host.labels
    IN  IF hostname # <<>> /\ Head(hostname) = "www" THEN Tail(hostname) ELSE hostname

\* { id, url, domain, ... }: the other fields are copied from the result
AuditAnalyticsEntry(id, url, domain) == [id |-> id, url |-> url, domain |-> domain]

Replaced_none(es, domain) == <<>>

\* this.entries.filter((entry) => entry.domain === domain)
Replaced(es, domain) == SelectSeq(es, LAMBDA entry : entry.domain = domain)

\* The ids of the entries of a list
Ids(es) == {es[i].id : i \in 1..Len(es)}

\* this.results.delete(item.id) for every item of a list
DeleteAll(results, es) == [id \in (DOMAIN results) \ Ids(es) |-> results[id]]

\* randomUUID(): an id no earlier call drew
FreshId == Len(recorded) + 1

\* The store after recordAudit(result)
recordAudit(result) ==
    LET domain == getDomainFromUrl(result.rootUrl)
        replaced == Replaced(entries, domain)
        kept == IF Len(replaced) > 0
                THEN SelectSeq(entries, LAMBDA entry : entry.domain # domain)
                ELSE entries
        afterDelete == DeleteAll(resultsById, replaced)
        entry == AuditAnalyticsEntry(FreshId, result.rootUrl, domain)
        unshifted == << entry >> \o kept
        afterSet == (entry.id :> result) @@ afterDelete
        removed == IF Len(unshifted) > MaxEntries
                   THEN SubSeq(unshifted, MaxEntries + 1, Len(unshifted))
                   ELSE <<>>
    IN  [ entries |-> SubSeq(unshifted, 1, Len(unshifted) - Len(removed)),
          results |-> DeleteAll(afterSet, removed),
          entry |-> entry ]

\* this.results.get(id)
getResultById(id) == IF id \in DOMAIN resultsById THEN resultsById[id] ELSE Undefined

\* The host names of the audited sites
SiteHosts == << "docs", "blog", "api", "dev", "wiki", "status", "help" >>

\* https://<name>.example.com/, and https://www.<first name>.example.com/
AuditedUrls ==
    { Url("https:", NameHost(<< SiteHosts[i], "example", "com" >>), <<"">>, <<>>, FALSE) :
          i \in 1..(MaxEntries + 1) }
    \cup { Url("https:", NameHost(<< "www", SiteHosts[1], "example", "com" >>), <<"">>, <<>>,
               FALSE) }

\* The AuditResult of an audit: the fields recordAudit copies are left out
AuditResults == { [rootUrl |-> u] : u \in AuditedUrls }

InitStore ==
    /\ AuditIdle
    /\ StoreEmpty
    /\ ssrfInput = NoCall /\ ssrfOutput = NoCall
    /\ scoreInput = NoCall /\ scoreOutput = NoCall
    /\ chunkInput = NoCall /\ chunkOutput = NoCall
    /\ normInput = NoCall /\ normOutput = NoCall

\* await store.recordAudit(result): the method has no await, so it runs whole
RecordAudit ==
    /\ Len(recorded) < MaxRecords
    /\ \E result \in AuditResults :
           LET after == recordAudit(result) IN
           /\ entries' = after.entries
           /\ resultsById' = after.results
           /\ recorded' = Append(recorded, [id |-> after.entry.id,
                                            domain |-> after.entry.domain,
                                            result |-> result])
    /\ UNCHANGED << auditVars, ssrfVars, scoreVars, chunkVars, normVars >>

NextStore == RecordAudit

SpecStore == InitStore /\ [][NextStore]_vars

\* The call that recorded a domain last
LastRecorded(domain) ==
    recorded[CHOOSE k \in 1..Len(recorded) :
                 /\ recorded[k].domain = domain
                 /\ \A m \in (k + 1)..Len(recorded) : recorded[m].domain # domain]

\* C30: after any recordAudit calls no two entries have one domain, an entry is
\* the audit recorded last for its domain, there are at most MaxEntries (1000)
\* entries, and getResultById returns a result, the one recorded, for the ids of
\* the entries and for no other id
C30_StoreHoldsLatestPerDomain ==
    /\ \A i, j \in 1..Len(entries) : entries[i].domain = entries[j].domain => i = j
    /\ \A i \in 1..Len(entries) :
           /\ entries[i].id = LastRecorded(entries[i].domain).id
           /\ getResultById(entries[i].id) = LastRecorded(entries[i].domain).result
    /\ Len(entries) <= MaxEntries
    /\ \A id \in 1..(MaxRecords + 1) :
           getResultById(id) # Undefined <=> \E i \in 1..Len(entries) : entries[i].id = id

\* A domain was recorded twice, under two URLs, its later audit is held, and the
\* store is full after dropping its oldest entry
C30_Witness ==
    /\ Len(entries) = MaxEntries
    /\ Len(recorded) > MaxEntries + 1
    /\ \E i, j \in 1..Len(recorded) :
           /\ i < j
           /\ recorded[i].domain = recorded[j].domain
           /\ recorded[i].result # recorded[j].result
           /\ \E k \in 1..Len(entries) : entries[k].id = recorded[j].id
    /\ \E i \in 1..Len(recorded) :
           \A k \in 1..Len(entries) : entries[k].domain # recorded[i].domain

====
